---- MODULE Spec2Model ----
(***************************************************************************)
(* Model of the scanalyzer parser plugin framework:                        *)
(*   - ParserRegistry (app/parsers/registry.py)                            *)
(*   - ParserFactory.get_parser (app/parsers/factory.py)                   *)
(*   - ProwlerV3Parser.parse_stream (app/parsers/prowler/...)              *)
(*   - AbstractParser.parse_with_recovery (app/parsers/base.py)            *)
(* Confidences and thresholds are written in tenths (0.7 is 7).            *)
(***************************************************************************)
EXTENDS Integers, Sequences, FiniteSets, TLC

VARIABLES
    parsers,        \* ParserRegistry._parsers: list of parser instances
    tool_index,     \* ParserRegistry._tool_index: tool name -> list of parsers
    file,           \* the file offered for selection: (file_preview, filename)
    last            \* the last registry/factory call and what it returned

regVars == <<parsers, tool_index, file, last>>

VARIABLES
    progress_callback,  \* parse_stream argument: "none", "ok" or "fails"
    stream,             \* what file_stream has delivered: "open", then the tail
    buffer,             \* parse_stream local: the bytes read, as record shapes
    pc,                 \* where the parse_stream generator stands
    pos,                \* position of the ijson event iterator
    current_finding,    \* parse_stream locals, as in the source
    in_findings_array,
    in_finding_object,
    in_compliance,
    current_compliance_framework,
    batch,
    findings_count,
    yidx,               \* index of the running "for f in batch" loop
    yielded,            \* the findings parse_stream has yielded, in order
    progress,           \* the arguments of the completed progress callbacks
    recovered,          \* the findings parse_with_recovery has yielded
    wpc                 \* where parse_with_recovery stands

streamVars == <<progress_callback, stream, buffer, pc, pos, current_finding,
                in_findings_array, in_finding_object, in_compliance,
                current_compliance_framework, batch, findings_count, yidx,
                yielded, progress, recovered, wpc>>

VARIABLES
    metrics,        \* ParserFactory._metrics[tool_name] of the one tool in use
    track_calls,    \* per concurrent track_metrics call: elapsed_time and success
    tpc,            \* per call: the statement of track_metrics it stands at
    loaded          \* per call: the counter value read by the running +=

metricVars == <<metrics, track_calls, tpc, loaded>>

VARIABLES
    parser_class,   \* the parser whose can_parse is called
    file_preview,   \* can_parse argument: the marker strings the preview contains
    filename,       \* can_parse argument: [word, ext], the word of the stem and the extension
    confidence      \* what can_parse returned: [returned, value], value in tenths

canParseVars == <<parser_class, file_preview, filename, confidence>>

VARIABLES
    content,        \* detect_format argument: [bytes, well_formed]
    detect_name,    \* detect_format argument filename: [given, ext]
    format_info     \* the FormatInfo returned: [returned, format_type, confidence, encoding]

detectVars == <<content, detect_name, format_info>>

VARIABLES
    severity_text,  \* map_severity argument: the text as a sequence of words
    mapped          \* what map_severity returned: [returned, severity]

severityVars == <<severity_text, mapped>>

VARIABLES
    scored,         \* calculate_confidence argument: the finding dict
    confidence_score,   \* calculate_confidence(scored) as [num, den]
    score_before    \* what it was before the last field was populated

scoreVars == <<scored, confidence_score, score_before>>

VARIABLES
    bandit_report,      \* the file: the records of {"results": [...]}
    bandit_callback,    \* parse_stream argument progress_callback
    bandit_pc,          \* where the run stands
    bandit_format,      \* the FormatInfo detect_format returned
    bandit_selected,    \* what get_parser returned, with the confidence
    bandit_idx,         \* index of the running "for result in results"
    bandit_count,       \* parse_stream local findings_count
    bandit_yielded,     \* the findings parse_stream has yielded, in order
    bandit_progress     \* the arguments of the completed progress callbacks

banditVars == <<bandit_report, bandit_callback, bandit_pc, bandit_format,
                bandit_selected, bandit_idx, bandit_count, bandit_yielded,
                bandit_progress>>

VARIABLES
    v2_findings,    \* _parse_json local findings: data.get("findings", [])
    v2_callback,    \* _parse_json argument progress_callback
    v2_pc,          \* where _parse_json stands
    v2_idx,         \* idx + 1 of the running "for idx, finding_data"
    v2_yielded,     \* the findings _parse_json has yielded, in order
    v2_progress     \* the completed progress callbacks: the argument, and
                    \* how many findings had been yielded by then

v2Vars == <<v2_findings, v2_callback, v2_pc, v2_idx, v2_yielded, v2_progress>>

VARIABLES
    pf_file,         \* the file: what each registered parser's can_parse does
    pf_emits,        \* how many findings parse_with_recovery yields for it
    pf_stream_fails, \* whether the parser's parse_stream raises after them
    pf_pc,           \* where parse_file stands
    pf_parser,       \* parse_file local parser: what get_parser returned
    pf_tracked,      \* the track_metrics call parse_file made
    pf_outcome       \* how parse_file ended

pfVars == <<pf_file, pf_emits, pf_stream_fails, pf_pc, pf_parser, pf_tracked,
            pf_outcome>>

VARIABLES
    active_connections, \* ConnectionManager.active_connections: its keys
    rooms,              \* ConnectionManager.rooms: room -> client ids; a room
                        \* without members stands for an absent key
    connection_rooms,   \* ConnectionInfo.rooms of each connection
    ws_last             \* the last call and how it ended

wsVars == <<active_connections, rooms, connection_rooms, ws_last>>

VARIABLES
    acc_record,   \* the record of the file {"findings": [record]}
    acc_pos,      \* the next event of ijson.parse(buffer)
    acc_locals    \* the locals of parse_stream

accVars == <<acc_record, acc_pos, acc_locals>>

VARIABLES
    table,          \* the table: its rows of cell texts, the header row first
    table_result    \* what _extract_from_tables did with it

tableVars == <<table, table_result>>

\* the variables outside each part of the model
restOfRegistry == <<streamVars, metricVars, canParseVars, detectVars,
    severityVars, scoreVars, banditVars, v2Vars, pfVars, wsVars, accVars,
    tableVars>>
restOfStream == <<regVars, metricVars, canParseVars, detectVars,
    severityVars, scoreVars, banditVars, v2Vars, pfVars, wsVars, accVars,
    tableVars>>
restOfMetrics == <<regVars, streamVars, canParseVars, detectVars,
    severityVars, scoreVars, banditVars, v2Vars, pfVars, wsVars, accVars,
    tableVars>>
restOfCanParse == <<regVars, streamVars, metricVars, detectVars,
    severityVars, scoreVars, banditVars, v2Vars, pfVars, wsVars, accVars,
    tableVars>>
restOfDetect == <<regVars, streamVars, metricVars, canParseVars,
    severityVars, scoreVars, banditVars, v2Vars, pfVars, wsVars, accVars,
    tableVars>>
restOfSeverity == <<regVars, streamVars, metricVars, canParseVars,
    detectVars, scoreVars, banditVars, v2Vars, pfVars, wsVars, accVars,
    tableVars>>
restOfScore == <<regVars, streamVars, metricVars, canParseVars, detectVars,
    severityVars, banditVars, v2Vars, pfVars, wsVars, accVars, tableVars>>
restOfBandit == <<regVars, streamVars, metricVars, canParseVars,
    detectVars, severityVars, scoreVars, v2Vars, pfVars, wsVars, accVars,
    tableVars>>
restOfV2 == <<regVars, streamVars, metricVars, canParseVars, detectVars,
    severityVars, scoreVars, banditVars, pfVars, wsVars, accVars, tableVars>>
restOfParseFile == <<regVars, streamVars, metricVars, canParseVars,
    detectVars, severityVars, scoreVars, banditVars, v2Vars, wsVars,
    accVars, tableVars>>
restOfWs == <<regVars, streamVars, metricVars, canParseVars, detectVars,
    severityVars, scoreVars, banditVars, v2Vars, pfVars, accVars, tableVars>>
restOfAccumulate == <<regVars, streamVars, metricVars, canParseVars,
    detectVars, severityVars, scoreVars, banditVars, v2Vars, pfVars,
    wsVars, tableVars>>
restOfTable == <<regVars, streamVars, metricVars, canParseVars, detectVars,
    severityVars, scoreVars, banditVars, v2Vars, pfVars, wsVars, accVars>>

(***************************************************************************)
(* Parser classes known to the model.  An instance is identified with its  *)
(* class: register() creates one instance per accepted class.              *)
(***************************************************************************)
ParserClasses == {"ProwlerV3Parser", "ProwlerV2Parser", "MyParser"}

\* get_metadata().tool_name of each class
ToolName(c) ==
    CASE c = "ProwlerV3Parser" -> "prowler"
      [] c = "ProwlerV2Parser" -> "prowler"
      [] c = "CheckovParser" -> "checkov"
      [] c = "BanditParser" -> "bandit"
      [] OTHER -> "custom"

\* get_metadata().confidence_threshold of each class (default 0.7; a plugin class
\* may declare its own, here 0.5)
ConfidenceThreshold(c) ==
    CASE c = "MyParser" -> 5
      [] OTHER -> 7

\* the values of the preferred_tool argument ("" is a falsy tool name, "nessus"
\* is a tool that no class of the model provides)
NoTool == ""
PreferredTools == {NoTool, "prowler", "custom", "nessus"}

\* A file (file_preview, filename) is represented by what
\* parser.can_parse(file_preview, filename) does on it, per class: it raises,
\* or it returns a confidence.
ConfLevels == {0, 5, 6, 7}
Outcomes == {[raises |-> TRUE, conf |-> 0]} \cup
            {[raises |-> FALSE, conf |-> n] : n \in ConfLevels}
Inputs == [ParserClasses -> Outcomes]

None == "None"
Raised == "Raised"

(***************************************************************************)
(* Sequence helpers                                                        *)
(***************************************************************************)
Range(s) == {s[i] : i \in 1..Len(s)}

RECURSIVE SelectSeqBy(_, _)
\* [x for x in s if x \in keep]
SelectSeqBy(s, keep) ==
    IF s = <<>> THEN <<>>
    ELSE IF Head(s) \in keep
         THEN <<Head(s)>> \o SelectSeqBy(Tail(s), keep)
         ELSE SelectSeqBy(Tail(s), keep)

IndexOf(s, x) == CHOOSE i \in 1..Len(s) : s[i] = x

(***************************************************************************)
(* ParserRegistry                                                          *)
(***************************************************************************)
\* existing.__class__.__name__ : the name register() compares
ClassName(c) == c

\* register(), the duplicate check: an entry of the same tool_name and the
\* same class name is already in _parsers
IsDuplicate(ps, c) ==
    \E i \in 1..Len(ps) :
        ToolName(ps[i]) = ToolName(c) /\ ClassName(ps[i]) = ClassName(c)

\* self._tool_index[tool_name].append(parser) on a defaultdict(list)
IndexAppend(idx, c) ==
    [t \in DOMAIN idx \cup {ToolName(c)} |->
        IF t = ToolName(c)
        THEN (IF t \in DOMAIN idx THEN idx[t] ELSE <<>>) \o <<c>>
        ELSE idx[t]]

\* A register() that appends the parser before it looks for duplicates.
register_append_first(ps, idx, c) ==
    [raised |-> IsDuplicate(ps, c),
     parsers |-> Append(ps, c),
     tool_index |-> IndexAppend(idx, c)]

\* register(parser_class): raises ValueError on a duplicate, before any
\* change; otherwise appends to _parsers and to the per-tool index
register(ps, idx, c) ==
    IF IsDuplicate(ps, c)
    THEN [raised |-> TRUE, parsers |-> ps, tool_index |-> idx]
    ELSE [raised |-> FALSE,
          parsers |-> Append(ps, c),
          tool_index |-> IndexAppend(idx, c)]

RECURSIVE RebuildIndex(_, _)
\* unregister(): _tool_index.clear() and the rebuild loop
RebuildIndex(idx, ps) ==
    IF ps = <<>> THEN idx
    ELSE RebuildIndex(IndexAppend(idx, Head(ps)), Tail(ps))

\* An unregister that rebuilds the index from the list as it was before the
\* class was dropped.
unregister_stale_index(ps, c) ==
    LET kept == SelectSeqBy(ps, Range(ps) \ {c})
    IN [parsers |-> kept, tool_index |-> RebuildIndex(<<>>, ps)]

\* unregister(parser_class): drops the instances of the class, rebuilds the
\* index
unregister(ps, c) ==
    LET kept == SelectSeqBy(ps, Range(ps) \ {c})
    IN [parsers |-> kept, tool_index |-> RebuildIndex(<<>>, kept)]

\* get_supported_tools(): list(self._tool_index.keys()), taken as a set
get_supported_tools(idx) == DOMAIN idx

RECURSIVE CollectCandidates(_, _)
\* get_compatible_parsers(), the loop: can_parse is awaited on every parser of
\* _parsers in turn; one that raises is logged and skipped, one that returns
\* a confidence > 0 is appended with it
CollectCandidates(ps, inp) ==
    IF ps = <<>> THEN <<>>
    ELSE LET p == Head(ps)
             rest == CollectCandidates(Tail(ps), inp)
         IN IF ~inp[p].raises /\ inp[p].conf > 0
            THEN <<[parser |-> p, confidence |-> inp[p].conf]>> \o rest
            ELSE rest

RECURSIVE CanParseCalls(_, _)
\* the parsers whose can_parse the loop of get_compatible_parsers() awaits
CanParseCalls(ps, inp) ==
    IF ps = <<>> THEN <<>>
    ELSE <<Head(ps)>> \o CanParseCalls(Tail(ps), inp)

RECURSIVE InsertDescBeforeEqual(_, _)
\* An insertion that puts x in front of the entries of equal confidence.
InsertDescBeforeEqual(sorted, x) ==
    IF sorted = <<>> THEN <<x>>
    ELSE IF Head(sorted).confidence > x.confidence
         THEN <<Head(sorted)>> \o InsertDescBeforeEqual(Tail(sorted), x)
         ELSE <<x>> \o sorted

RECURSIVE InsertDesc(_, _)
\* list.sort(key=confidence, reverse=True) is stable: an entry goes behind
\* every entry of greater or equal confidence that came before it
InsertDesc(sorted, x) ==
    IF sorted = <<>> THEN <<x>>
    ELSE IF Head(sorted).confidence >= x.confidence
         THEN <<Head(sorted)>> \o InsertDesc(Tail(sorted), x)
         ELSE <<x>> \o sorted

RECURSIVE SortCandidates(_, _)
\* candidates.sort(key=lambda x: x[1], reverse=True)
SortCandidates(sorted, rest) ==
    IF rest = <<>> THEN sorted
    ELSE SortCandidates(InsertDesc(sorted, Head(rest)), Tail(rest))

\* get_compatible_parsers(file_preview, filename)
get_compatible_parsers(ps, inp) ==
    SortCandidates(<<>>, CollectCandidates(ps, inp))

\* get_parser_for_tool(tool_name) without a version: the first parser the
\* index lists for the tool, None when it lists none
get_parser_for_tool(idx, tool) ==
    IF tool \in DOMAIN idx /\ idx[tool] # <<>> THEN idx[tool][1] ELSE None

(***************************************************************************)
(* ParserFactory.get_parser                                                *)
(***************************************************************************)
ClearsThreshold(cand) == cand.confidence >= ConfidenceThreshold(cand.parser)

\* A general selection that fails closed when no candidate clears its
\* threshold.
SelectBestFailClosed(cands) ==
    IF cands = <<>>
    THEN [result |-> None, log |-> "no parser found"]
    ELSE IF \E i \in 1..Len(cands) : ClearsThreshold(cands[i])
         THEN LET k == CHOOSE i \in 1..Len(cands) :
                           /\ ClearsThreshold(cands[i])
                           /\ \A j \in 1..(i - 1) : ~ClearsThreshold(cands[j])
              IN [result |-> cands[k].parser, log |-> "selected"]
         ELSE [result |-> None, log |-> "no parser found"]

\* A general selection that takes the top-ranked candidate whatever its
\* threshold.
SelectBestTopRanked(cands) ==
    IF cands = <<>>
    THEN [result |-> None, log |-> "no parser found"]
    ELSE IF ClearsThreshold(cands[1])
         THEN [result |-> cands[1].parser, log |-> "selected"]
         ELSE [result |-> cands[1].parser, log |-> "low confidence"]

\* get_parser(), general selection over the ranked candidates: None with
\* a warning when there are none; else the first candidate in list order whose
\* confidence >= its own threshold; else candidates[0] with the low-confidence
\* warning
SelectBest(cands) ==
    IF cands = <<>>
    THEN [result |-> None, log |-> "no parser found"]
    ELSE IF \E i \in 1..Len(cands) : ClearsThreshold(cands[i])
         THEN LET k == CHOOSE i \in 1..Len(cands) :
                           /\ ClearsThreshold(cands[i])
                           /\ \A j \in 1..(i - 1) : ~ClearsThreshold(cands[j])
              IN [result |-> cands[k].parser, log |-> "selected"]
         ELSE [result |-> cands[1].parser, log |-> "low confidence"]

\* get_parser(), the part after the preferred-tool block
GeneralSelection(ps, inp) ==
    LET cands == get_compatible_parsers(ps, inp)
        best == SelectBest(cands)
    IN [raised |-> FALSE, result |-> best.result, log |-> best.log,
        general |-> TRUE, candidates |-> cands]

\* A get_parser that never looks at the preferred tool.
get_parser_no_preference(ps, idx, inp, pref) == GeneralSelection(ps, inp)

\* get_parser(file_preview, filename, preferred_tool): the preferred tool's
\* parser is asked first, outside any try block (its can_parse exception
\* leaves get_parser); it is returned when its confidence >= its threshold;
\* otherwise general selection
get_parser(ps, idx, inp, pref) ==
    LET p == IF pref # NoTool THEN get_parser_for_tool(idx, pref) ELSE None
    IN IF p # None /\ inp[p].raises
       THEN [raised |-> TRUE, result |-> Raised, log |-> "",
             general |-> FALSE, candidates |-> <<>>]
       ELSE IF p # None /\ inp[p].conf >= ConfidenceThreshold(p)
            THEN [raised |-> FALSE, result |-> p, log |-> "",
                  general |-> FALSE, candidates |-> <<>>]
            ELSE GeneralSelection(ps, inp)

(***************************************************************************)
(* Registry and factory operations as actions                              *)
(***************************************************************************)
InitRegistry ==
    /\ parsers = <<>>
    /\ tool_index = <<>>
    /\ file \in Inputs
    /\ last = [op |-> "init"]

Register(c) ==
    LET r == register(parsers, tool_index, c)
    IN /\ parsers' = r.parsers
       /\ tool_index' = r.tool_index
       /\ last' = [op |-> "register", cls |-> c, raised |-> r.raised]
       /\ UNCHANGED <<file, restOfRegistry>>

Unregister(c) ==
    LET r == unregister(parsers, c)
    IN /\ parsers' = r.parsers
       /\ tool_index' = r.tool_index
       /\ last' = [op |-> "unregister", cls |-> c, raised |-> FALSE]
       /\ UNCHANGED <<file, restOfRegistry>>

GetCompatibleParsers ==
    /\ last' = [op |-> "get_compatible_parsers", raised |-> FALSE,
                called |-> CanParseCalls(parsers, file),
                result |-> get_compatible_parsers(parsers, file)]
    /\ UNCHANGED <<parsers, tool_index, file, restOfRegistry>>

GetParser(pref) ==
    LET r == get_parser(parsers, tool_index, file, pref)
    IN /\ last' = [op |-> "get_parser", preferred |-> pref,
                   raised |-> r.raised, result |-> r.result, log |-> r.log,
                   general |-> r.general, candidates |-> r.candidates]
       /\ UNCHANGED <<parsers, tool_index, file, restOfRegistry>>

NextRegistry ==
    \/ \E c \in ParserClasses : Register(c)
    \/ \E c \in ParserClasses : Unregister(c)
    \/ GetCompatibleParsers
    \/ \E pref \in PreferredTools : GetParser(pref)


(***************************************************************************)
(* JSON documents and the event stream ijson.parse produces from them      *)
(***************************************************************************)
\* JSON values: v of a string is its text, of an object its list of
\* <<key, value>> members, of an array its list of items; Null is JSON null
\* and Python None
Str(s) == [t |-> "string", v |-> s]
Null == [t |-> "null", v |-> ""]
Obj(members) == [t |-> "object", v |-> members]
Arr(items) == [t |-> "array", v |-> items]

\* one (prefix, event, value) of ijson.parse; the dotted prefix is kept as the
\* list of its segments
Ev(prefix, event, value) == [prefix |-> prefix, event |-> event, value |-> value]

RECURSIVE ValueEvents(_, _), MembersEvents(_, _), ItemsEvents(_, _)
\* the events of one JSON value found under prefix
ValueEvents(prefix, val) ==
    CASE val.t = "object" ->
            <<Ev(prefix, "start_map", Null)>> \o MembersEvents(prefix, val.v)
                \o <<Ev(prefix, "end_map", Null)>>
      [] val.t = "array" ->
            <<Ev(prefix, "start_array", Null)>>
                \o ItemsEvents(Append(prefix, "item"), val.v)
                \o <<Ev(prefix, "end_array", Null)>>
      [] OTHER -> <<Ev(prefix, val.t, val)>>

MembersEvents(prefix, members) ==
    IF members = <<>> THEN <<>>
    ELSE <<Ev(prefix, "map_key", Str(Head(members)[1]))>>
             \o ValueEvents(Append(prefix, Head(members)[1]), Head(members)[2])
             \o MembersEvents(prefix, Tail(members))

ItemsEvents(prefix, items) ==
    IF items = <<>> THEN <<>>
    ELSE ValueEvents(prefix, Head(items)) \o ItemsEvents(prefix, Tail(items))

\* the iterator raising (ijson.JSONError, IncompleteJSONError) in place of a
\* next event
ErrorEvent == Ev(<<>>, "ERROR", Null)

(***************************************************************************)
(* The input files of the model                                            *)
(***************************************************************************)
\* number of findings parse_stream buffers before it flushes; the source
\* sets batch_size = 1000, the model runs with a small batch so that several
\* flushes fit into a bounded input
batch_size == 2

\* most records in one input file
MaxRecords == 4

\* The records an input file may hold:
\*   fail          {"check_id": i, "status": "FAIL", "severity": "high"}
\*   pass          {"check_id": i, "status": "PASS"}
\*   nested_pass   {"check_id": i, "status": "FAIL",
\*                  "resource_details": {"status": "PASS"}}
\*   null_severity {"check_id": i, "status": "FAIL", "severity": null}
RecordShapes == {"fail", "pass", "nested_pass", "null_severity"}

Record(shape, i) ==
    LET id == <<"check_id", Str(ToString(i))>>
    IN CASE shape = "fail" ->
              Obj(<<id, <<"status", Str("FAIL")>>, <<"severity", Str("high")>>>>)
         [] shape = "pass" ->
              Obj(<<id, <<"status", Str("PASS")>>>>)
         [] shape = "nested_pass" ->
              Obj(<<id, <<"status", Str("FAIL")>>,
                    <<"resource_details", Obj(<<<<"status", Str("PASS")>>>>)>>>>)
         [] OTHER ->
              Obj(<<id, <<"status", Str("FAIL")>>, <<"severity", Null>>>>)

Records(shapes) == [i \in 1..Len(shapes) |-> Record(shapes[i], i)]

\* {"findings": [record, ...]}
Document(shapes) == Obj(<<<<"findings", Arr(Records(shapes))>>>>)

\* how an input file ends: with its closing "]}" or broken off (truncated or
\* corrupted) inside the record that follows its last complete record
Tails == {"closed", "broken"}

\* ijson.parse(buffer): the events of the complete records, then the closing
\* events or, for a broken file, the events of the part of the next record
\* that is there and the error
Events(shapes, tail) ==
    IF tail = "closed" THEN ValueEvents(<<>>, Document(shapes))
    ELSE LET whole == ValueEvents(<<>>, Document(Append(shapes, "fail")))
             complete == Len(ValueEvents(<<>>, Document(shapes))) - 2
         IN SubSeq(whole, 1, complete + 3) \o <<ErrorEvent>>

(***************************************************************************)
(* ProwlerV3Parser                                                         *)
(***************************************************************************)
\* dict.get(k, default)
Get(d, k, default) == IF k \in DOMAIN d THEN d[k] ELSE default

\* d[k] = val
DictSet(d, k, val) ==
    [x \in DOMAIN d \cup {k} |-> IF x = k THEN val ELSE d[x]]

\* str.lower() on the severity texts of the model
Lower(s) ==
    CASE s = "HIGH" -> "high"
      [] s = "LOW" -> "low"
      [] s = "MEDIUM" -> "medium"
      [] s = "CRITICAL" -> "critical"
      [] OTHER -> s

\* severity_map.get(severity_str, SeverityLevel.MEDIUM)
SeverityOf(s) ==
    CASE s = "critical" -> "CRITICAL"
      [] s = "high" -> "HIGH"
      [] s = "medium" -> "MEDIUM"
      [] s = "low" -> "LOW"
      [] s = "informational" -> "LOW"
      [] OTHER -> "MEDIUM"

\* _process_finding(finding_data): the empty list stands for None. None for
\* status PASS; a severity that is no string makes .lower() raise, which the
\* except clause turns into None; otherwise the Finding
process_finding(finding_data) ==
    IF Get(finding_data, "status", Null) = Str("PASS") THEN <<>>
    ELSE LET sev == Get(finding_data, "severity", Str("medium"))
         IN IF sev.t # "string" THEN <<>>
            ELSE <<[title |-> Get(finding_data, "check_title",
                                  Get(finding_data, "check_id",
                                      Str("Unknown Check"))),
                    description |-> Get(finding_data, "description", Str("")),
                    severity |-> SeverityOf(Lower(sev.v)),
                    tool_source |-> "prowler"]>>

ItemPrefix == <<"findings", "item">>
StructuralEvents == {"start_map", "end_map", "start_array", "end_array"}
LastSegment(prefix) == IF prefix = <<>> THEN "" ELSE prefix[Len(prefix)]

\* A record close that flushes only once the batch has grown past batch_size.
CloseRecordLateFlush(L) ==
    LET finding == process_finding(L.current_finding)
        newBatch == L.batch \o finding
    IN [L EXCEPT !.in_finding_object = FALSE,
                 !.batch = newBatch,
                 !.findings_count = L.findings_count + Len(finding),
                 !.suspend = finding # <<>> /\ Len(newBatch) > batch_size]

\* parse_stream, "Process completed finding": the record is converted and, if
\* it gives a finding, appended to the batch and counted; suspend tells that
\* the batch is full and is flushed next
CloseRecord(L) ==
    LET finding == process_finding(L.current_finding)
        newBatch == L.batch \o finding
    IN [L EXCEPT !.in_finding_object = FALSE,
                 !.batch = newBatch,
                 !.findings_count = L.findings_count + Len(finding),
                 !.suspend = finding # <<>> /\ Len(newBatch) >= batch_size]

\* parse_stream, "Collect finding fields"
CollectField(L, e) ==
    LET field_name == LastSegment(e.prefix)
    IN IF field_name = "compliance" /\ e.event = "start_map"
       THEN [L EXCEPT !.in_compliance = TRUE,
                      !.current_finding =
                          DictSet(L.current_finding, "compliance", <<>>)]
       ELSE IF L.in_compliance
       THEN IF e.event = "end_map" /\ LastSegment(e.prefix) = "compliance"
            THEN [L EXCEPT !.in_compliance = FALSE,
                           !.current_compliance_framework = None]
            ELSE IF e.event = "start_array"
            THEN [L EXCEPT !.current_compliance_framework = field_name,
                           !.current_finding =
                               DictSet(L.current_finding, "compliance",
                                   DictSet(L.current_finding["compliance"],
                                           field_name, <<>>))]
            ELSE IF e.event = "string" /\ L.current_compliance_framework # None
            THEN [L EXCEPT !.current_finding =
                      DictSet(L.current_finding, "compliance",
                          DictSet(L.current_finding["compliance"],
                                  L.current_compliance_framework,
                                  Append(L.current_finding["compliance"]
                                             [L.current_compliance_framework],
                                         e.value)))]
            ELSE L
       ELSE [L EXCEPT !.current_finding =
                          DictSet(L.current_finding, field_name, e.value)]

\* parse_stream, one turn of "for prefix, event, value in parser"
HandleEvent(L, e) ==
    LET inArray == IF e.prefix = <<"findings">> /\ e.event = "start_array"
                   THEN TRUE
                   ELSE IF e.prefix = <<"findings">> /\ e.event = "end_array"
                        THEN FALSE
                        ELSE L.in_findings_array
        L1 == [L EXCEPT !.in_findings_array = inArray]
    IN IF ~inArray THEN L1
       ELSE IF e.prefix = ItemPrefix /\ e.event = "start_map"
       THEN [L1 EXCEPT !.in_finding_object = TRUE, !.current_finding = <<>>]
       ELSE IF e.prefix = ItemPrefix /\ e.event = "end_map"
       THEN CloseRecord(L1)
       ELSE IF L1.in_finding_object /\ e.event \notin StructuralEvents
       THEN CollectField(L1, e)
       ELSE L1

RECURSIVE RunLoop(_, _, _)
\* parse_stream, the event loop from event number p on, up to the point where
\* the generator next suspends or leaves the loop: a full batch ("flush"), the
\* iterator raising ("error"), or the end of the events ("exhausted")
RunLoop(L, events, p) ==
    IF p > Len(events) THEN [locals |-> L, pos |-> p, stop |-> "exhausted"]
    ELSE IF events[p].event = "ERROR"
    THEN [locals |-> L, pos |-> p, stop |-> "error"]
    ELSE LET L2 == HandleEvent(L, events[p])
         IN IF L2.suspend
            THEN [locals |-> L2, pos |-> p + 1, stop |-> "flush"]
            ELSE RunLoop(L2, events, p + 1)

\* the locals of parse_stream as one record
Locals ==
    [current_finding |-> current_finding,
     in_findings_array |-> in_findings_array,
     in_finding_object |-> in_finding_object,
     in_compliance |-> in_compliance,
     current_compliance_framework |-> current_compliance_framework,
     batch |-> batch,
     findings_count |-> findings_count,
     suspend |-> FALSE]

CallbackModes == {"none", "ok", "fails"}

\* the state of a parse_stream call (driven by parse_with_recovery) before its
\* first step
InitStream ==
    /\ stream = "open"
    /\ buffer = <<>>
    /\ pc = "read"
    /\ pos = 1
    /\ current_finding = <<>>
    /\ in_findings_array = FALSE
    /\ in_finding_object = FALSE
    /\ in_compliance = FALSE
    /\ current_compliance_framework = None
    /\ batch = <<>>
    /\ findings_count = 0
    /\ yidx = 1
    /\ yielded = <<>>
    /\ progress = <<>>
    /\ recovered = <<>>
    /\ wpc = "iterating"

\* the generator runs only while its consumer waits for the next finding
Pulling == wpc = "iterating" /\ Len(recovered) = Len(yielded)

\* "async for chunk in file_stream: buffer += chunk", a chunk that brings one
\* more complete record
ReadChunk(shape) ==
    /\ pc = "read"
    /\ Pulling
    /\ Len(buffer) < MaxRecords
    /\ buffer' = Append(buffer, shape)
    /\ UNCHANGED <<progress_callback, stream, pc, pos, current_finding,
                   in_findings_array, in_finding_object, in_compliance,
                   current_compliance_framework, batch, findings_count, yidx,
                   yielded, progress, recovered, wpc, restOfStream>>

\* the last chunk (the end of the file) and the end of the stream
ReadLastChunk(tail) ==
    /\ pc = "read"
    /\ Pulling
    /\ stream' = tail
    /\ pc' = "parse"
    /\ UNCHANGED <<progress_callback, buffer, pos, current_finding,
                   in_findings_array, in_finding_object, in_compliance,
                   current_compliance_framework, batch, findings_count, yidx,
                   yielded, progress, recovered, wpc, restOfStream>>

\* the event loop runs to its next suspension
Parse ==
    /\ pc = "parse"
    /\ Pulling
    /\ LET r == RunLoop(Locals, Events(buffer, stream), pos)
       IN /\ current_finding' = r.locals.current_finding
          /\ in_findings_array' = r.locals.in_findings_array
          /\ in_finding_object' = r.locals.in_finding_object
          /\ in_compliance' = r.locals.in_compliance
          /\ current_compliance_framework' = r.locals.current_compliance_framework
          /\ batch' = r.locals.batch
          /\ findings_count' = r.locals.findings_count
          /\ pos' = r.pos
          /\ pc' = CASE r.stop = "flush" -> "flush"
                     [] r.stop = "error" -> "except"
                     [] OTHER -> "remaining"
    /\ yidx' = 1
    /\ UNCHANGED <<progress_callback, stream, buffer, yielded, progress,
                   recovered, wpc, restOfStream>>

\* one "yield" of a "for f in batch" loop
YieldNext ==
    /\ Pulling
    /\ yidx <= Len(batch)
    /\ yielded' = Append(yielded, batch[yidx])
    /\ yidx' = yidx + 1
    /\ UNCHANGED <<progress_callback, stream, buffer, pc, pos, current_finding,
                   in_findings_array, in_finding_object, in_compliance,
                   current_compliance_framework, batch, findings_count,
                   progress, recovered, wpc, restOfStream>>

\* "Yield batch if full": for f in batch: yield f
YieldBatch == pc = "flush" /\ YieldNext

\* "Yield remaining findings": for finding in batch: yield finding
YieldRemaining == pc = "remaining" /\ YieldNext

\* the except clause: for finding in batch: yield finding
YieldPartial == pc = "except" /\ YieldNext

\* await progress_callback(findings_count): where the generator goes on and
\* what the callback has been told; "fails" is a callback that raises or whose
\* result cannot be awaited, which takes the generator to its except clause
AfterCallback(mode, count, calls, goOn) ==
    CASE mode = "ok" -> [pc |-> goOn, progress |-> Append(calls, count)]
      [] mode = "fails" -> [pc |-> "except", progress |-> calls]
      [] OTHER -> [pc |-> goOn, progress |-> calls]

\* after the last yield of a flush: batch = [] and the progress report
AfterFlush ==
    /\ pc = "flush"
    /\ Pulling
    /\ yidx > Len(batch)
    /\ batch' = <<>>
    /\ LET r == AfterCallback(progress_callback, findings_count, progress, "parse")
       IN pc' = r.pc /\ progress' = r.progress
    /\ yidx' = 1
    /\ UNCHANGED <<progress_callback, stream, buffer, pos, current_finding,
                   in_findings_array, in_finding_object, in_compliance,
                   current_compliance_framework, findings_count, yielded,
                   recovered, wpc, restOfStream>>

\* "Final progress update", after the remaining findings were yielded (the
\* batch still holds them)
FinalProgress ==
    /\ pc = "remaining"
    /\ Pulling
    /\ yidx > Len(batch)
    /\ LET r == IF findings_count > 0
                THEN AfterCallback(progress_callback, findings_count, progress, "done")
                ELSE [pc |-> "done", progress |-> progress]
       IN pc' = r.pc /\ progress' = r.progress
    /\ yidx' = 1
    /\ UNCHANGED <<progress_callback, stream, buffer, pos, current_finding,
                   in_findings_array, in_finding_object, in_compliance,
                   current_compliance_framework, batch, findings_count,
                   yielded, recovered, wpc, restOfStream>>

\* raise ParseError(...) at the end of the except clause
RaiseParseError ==
    /\ pc = "except"
    /\ Pulling
    /\ yidx > Len(batch)
    /\ pc' = "raised"
    /\ UNCHANGED <<progress_callback, stream, buffer, pos, current_finding,
                   in_findings_array, in_finding_object, in_compliance,
                   current_compliance_framework, batch, findings_count, yidx,
                   yielded, progress, recovered, wpc, restOfStream>>

(***************************************************************************)
(* AbstractParser.parse_with_recovery                                      *)
(***************************************************************************)
\* A wrapper that lets the exception of parse_stream through.
recovery_reraises(ended) == IF ended = "raised" THEN "raised" ELSE "ended"

\* how parse_with_recovery ends once parse_stream has ended ("done") or raised
\* ("raised"): the exception is logged and not raised again
recovery_end(ended) == "ended"

\* async for finding in self.parse_stream(...): yield finding
Forward ==
    /\ wpc = "iterating"
    /\ Len(recovered) < Len(yielded)
    /\ recovered' = Append(recovered, yielded[Len(recovered) + 1])
    /\ UNCHANGED <<progress_callback, stream, buffer, pc, pos, current_finding,
                   in_findings_array, in_finding_object, in_compliance,
                   current_compliance_framework, batch, findings_count, yidx,
                   yielded, progress, wpc, restOfStream>>

\* the end of the iteration, normal or by the except clause of the wrapper
EndRecovery ==
    /\ wpc = "iterating"
    /\ Len(recovered) = Len(yielded)
    /\ pc \in {"done", "raised"}
    /\ wpc' = recovery_end(pc)
    /\ UNCHANGED <<progress_callback, stream, buffer, pc, pos, current_finding,
                   in_findings_array, in_finding_object, in_compliance,
                   current_compliance_framework, batch, findings_count, yidx,
                   yielded, progress, recovered, restOfStream>>

NextStream ==
    \/ \E shape \in RecordShapes : ReadChunk(shape)
    \/ \E tail \in Tails : ReadLastChunk(tail)
    \/ Parse
    \/ YieldBatch
    \/ YieldRemaining
    \/ YieldPartial
    \/ AfterFlush
    \/ FinalProgress
    \/ RaiseParseError
    \/ Forward
    \/ EndRecovery

(***************************************************************************)
(* ParserFactory.track_metrics, called by concurrent parse operations for  *)
(* the same tool.  The method takes no lock; each "counter += x" is a read *)
(* of the counter followed by a write of the sum, and another call may run *)
(* between the two.  Elapsed times are whole seconds.                      *)
(***************************************************************************)
\* number of concurrent track_metrics track_calls
NumCalls == 2
Callers == 1..NumCalls
ElapsedTimes == {1, 2}

\* self._metrics = defaultdict(lambda: {...}): the entry of a tool not seen yet
NewMetrics == [parse_count |-> 0, total_time |-> 0, error_count |-> 0]

InitMetrics ==
    /\ metrics = NewMetrics
    /\ track_calls \in [Callers -> [elapsed_time : ElapsedTimes, success : BOOLEAN]]
    /\ tpc = [t \in Callers |-> "parse_count"]
    /\ loaded = [t \in Callers |-> 0]

\* the read half of "metrics[counter] += x": call t reads the counter
Load(t, counter) == [loaded EXCEPT ![t] = metrics[counter]]

\* the write half: the value read by call t plus x is stored
Store(t, counter, x) == [metrics EXCEPT ![counter] = loaded[t] + x]

\* call t moves to statement to
Goto(t, to) == [tpc EXCEPT ![t] = to]

\* metrics['parse_count'] += 1
LoadParseCount(t) ==
    /\ tpc[t] = "parse_count"
    /\ loaded' = Load(t, "parse_count")
    /\ tpc' = Goto(t, "parse_count_store")
    /\ UNCHANGED <<metrics, track_calls, restOfMetrics>>

StoreParseCount(t) ==
    /\ tpc[t] = "parse_count_store"
    /\ metrics' = Store(t, "parse_count", 1)
    /\ tpc' = Goto(t, "total_time")
    /\ UNCHANGED <<track_calls, loaded, restOfMetrics>>

\* metrics['total_time'] += elapsed_time
LoadTotalTime(t) ==
    /\ tpc[t] = "total_time"
    /\ loaded' = Load(t, "total_time")
    /\ tpc' = Goto(t, "total_time_store")
    /\ UNCHANGED <<metrics, track_calls, restOfMetrics>>

StoreTotalTime(t) ==
    /\ tpc[t] = "total_time_store"
    /\ metrics' = Store(t, "total_time", track_calls[t].elapsed_time)
    /\ tpc' = Goto(t, "if_not_success")
    /\ UNCHANGED <<track_calls, loaded, restOfMetrics>>

\* if not success:
TestSuccess(t) ==
    /\ tpc[t] = "if_not_success"
    /\ tpc' = Goto(t, IF track_calls[t].success THEN "returned"
                      ELSE "error_count")
    /\ UNCHANGED <<metrics, track_calls, loaded, restOfMetrics>>

\*     metrics['error_count'] += 1
LoadErrorCount(t) ==
    /\ tpc[t] = "error_count"
    /\ loaded' = Load(t, "error_count")
    /\ tpc' = Goto(t, "error_count_store")
    /\ UNCHANGED <<metrics, track_calls, restOfMetrics>>

StoreErrorCount(t) ==
    /\ tpc[t] = "error_count_store"
    /\ metrics' = Store(t, "error_count", 1)
    /\ tpc' = Goto(t, "returned")
    /\ UNCHANGED <<track_calls, loaded, restOfMetrics>>

NextMetrics ==
    \E t \in Callers :
        \/ LoadParseCount(t)
        \/ StoreParseCount(t)
        \/ LoadTotalTime(t)
        \/ StoreTotalTime(t)
        \/ TestSuccess(t)
        \/ LoadErrorCount(t)
        \/ StoreErrorCount(t)

\* no track_metrics call in progress
MetricsIdle ==
    /\ metrics = NewMetrics
    /\ track_calls = [t \in Callers |-> [elapsed_time |-> 1, success |-> TRUE]]
    /\ tpc = [t \in Callers |-> "returned"]
    /\ loaded = [t \in Callers |-> 0]

\* no parse_stream call running
StreamIdle == InitStream /\ progress_callback = "none"

\* no file offered and nothing registered
RegistryIdle ==
    /\ parsers = <<>>
    /\ tool_index = <<>>
    /\ last = [op |-> "init"]
    /\ file = [c \in ParserClasses |-> [raises |-> FALSE, conf |-> 0]]

\* a parse_stream call with or without a progress callback
InitStreamCall == InitStream /\ progress_callback \in CallbackModes

(***************************************************************************)
(* can_parse of the parsers that register themselves: BanditParser,        *)
(* CheckovParser, ProwlerV3Parser, ProwlerV2Parser.  A preview is the set  *)
(* of the strings looked for that occur in it; a marker written key stands *)
(* for the quoted text "key".  Confidences are in tenths.                  *)
(***************************************************************************)
ShippedParsers ==
    {"BanditParser", "CheckovParser", "ProwlerV3Parser", "ProwlerV2Parser"}

\* the strings each can_parse searches the preview for
MarkersOf(c) ==
    CASE c = "BanditParser" ->
             {"generated_at", "metrics", "results", "B301", "test_id",
              "issue_confidence", "issue_severity"}
      [] c = "CheckovParser" ->
             {"check_type", "failed_checks", "passed_checks", "CKV_",
              "$schema", "sarif", "tool", "Checkov"}
      [] c = "ProwlerV3Parser" ->
             {"prowler_version", "3.0", "findings", "severity", "check_id"}
      [] OTHER ->
             {"prowler_version", "2.", "level", "scored", "CHECK_ID", "LEVEL",
              "SERVICE"}

\* filenames: a stem holding one word, and an extension
NameWords == {"bandit", "checkov", "prowler", "report"}
Extensions == {".json", ".sarif", ".csv", ".txt"}
Filenames == [word : NameWords, ext : Extensions]

\* confidence += x when the condition holds
Add(cond, x) == IF cond THEN x ELSE 0

\* min(confidence, 1.0)
Min(a, b) == IF a <= b THEN a ELSE b

\* A can_parse that returns the sum as it is.
Uncapped(confidence_sum) == confidence_sum

\* return min(confidence, 1.0)
Capped(confidence_sum) == Min(confidence_sum, 10)

\* BanditParser.can_parse
BanditConfidence(preview, name) ==
    Capped(Add(name.word = "bandit", 4)
           + Add(name.ext = ".json", 1)
           + Add("generated_at" \in preview, 2)
           + Add("metrics" \in preview /\ "results" \in preview, 3)
           + Add({"B301", "B105", "B307", "test_id"} \cap preview # {}, 2)
           + Add("issue_confidence" \in preview
                 /\ "issue_severity" \in preview, 2))

\* CheckovParser.can_parse
CheckovConfidence(preview, name) ==
    Capped(Add(name.word = "checkov", 4)
           + Add(name.ext \in {".json", ".sarif"}, 2)
           + Add("check_type" \in preview, 3)
           + Add("failed_checks" \in preview \/ "passed_checks" \in preview, 2)
           + Add({"CKV_", "CKV2_", "BC_"} \cap preview # {}, 2)
           + Add("$schema" \in preview /\ "sarif" \in preview, 2)
           + Add("$schema" \in preview /\ "sarif" \in preview
                 /\ "tool" \in preview /\ "Checkov" \in preview, 2))

\* ProwlerV3Parser.can_parse
ProwlerV3Confidence(preview, name) ==
    Capped(Add(name.word = "prowler", 3)
           + Add(name.ext = ".json", 2)
           + Add("prowler_version" \in preview, 3)
           + Add("prowler_version" \in preview
                 /\ {"3.0", "3.1", "3.2", "3.3"} \cap preview # {}, 2)
           + Add("findings" \in preview, 1)
           + Add({"severity", "check_id", "compliance"} \cap preview # {}, 1))

\* ProwlerV2Parser.can_parse
ProwlerV2Confidence(preview, name) ==
    Capped(Add(name.word = "prowler", 3)
           + (CASE name.ext = ".json" ->
                     1 + Add("prowler_version" \in preview /\ "2." \in preview, 4)
                       + Add({"level", "scored", "result_extended"}
                                 \cap preview # {}, 2)
                [] name.ext = ".csv" ->
                     1 + Add({"CHECK_ID", "LEVEL", "SERVICE"} \subseteq preview, 5)
                [] OTHER -> 0))

NotCalled == [returned |-> FALSE, value |-> 0]
Returned(value) == [returned |-> TRUE, value |-> value]

InitCanParse ==
    /\ parser_class \in ShippedParsers
    /\ file_preview \in SUBSET MarkersOf(parser_class)
    /\ filename \in Filenames
    /\ confidence = NotCalled

BanditCanParse ==
    /\ parser_class = "BanditParser"
    /\ ~confidence.returned
    /\ confidence' = Returned(BanditConfidence(file_preview, filename))
    /\ UNCHANGED <<parser_class, file_preview, filename, restOfCanParse>>

CheckovCanParse ==
    /\ parser_class = "CheckovParser"
    /\ ~confidence.returned
    /\ confidence' = Returned(CheckovConfidence(file_preview, filename))
    /\ UNCHANGED <<parser_class, file_preview, filename, restOfCanParse>>

ProwlerV3CanParse ==
    /\ parser_class = "ProwlerV3Parser"
    /\ ~confidence.returned
    /\ confidence' = Returned(ProwlerV3Confidence(file_preview, filename))
    /\ UNCHANGED <<parser_class, file_preview, filename, restOfCanParse>>

ProwlerV2CanParse ==
    /\ parser_class = "ProwlerV2Parser"
    /\ ~confidence.returned
    /\ confidence' = Returned(ProwlerV2Confidence(file_preview, filename))
    /\ UNCHANGED <<parser_class, file_preview, filename, restOfCanParse>>

NextCanParse ==
    \/ BanditCanParse
    \/ CheckovCanParse
    \/ ProwlerV3CanParse
    \/ ProwlerV2CanParse

\* no can_parse call made
CanParseIdle ==
    /\ parser_class = "BanditParser"
    /\ file_preview = {}
    /\ filename = [word |-> "report", ext |-> ".txt"]
    /\ confidence = NotCalled

(***************************************************************************)
(* FormatDetector.  The preview is a sequence of bytes, each written as a  *)
(* one-character string (x03, x04, xFF... for the bytes that have no       *)
(* character), together with what the text parsers make of it:             *)
(* well_formed is "json" when json.loads accepts it, "xml" when            *)
(* ET.fromstring does, "none" otherwise.  Confidences are in hundredths.   *)
(***************************************************************************)
\* FormatDetector.MAGIC_BYTES, in the order of the dict
MAGIC_BYTES ==
    << <<<<"{", "\"">>, "json">>,
       <<<<"[", "\n">>, "json">>,
       <<<<"[", "{">>, "json">>,
       <<<<"<", "?", "x", "m", "l">>, "xml">>,
       <<<<"<", "\\", "?", "x", "m", "l">>, "xml">>,
       <<<<"<", "h", "t", "m", "l">>, "html">>,
       <<<<"<", "H", "T", "M", "L">>, "html">>,
       <<<<"<", "!", "D", "O", "C", "T", "Y", "P", "E", " ", "h", "t", "m",
           "l">>, "html">>,
       <<<<"%", "P", "D", "F">>, "pdf">>,
       <<<<"P", "K", "x03", "x04">>, "xlsx">>,
       <<<<"-", "-", "-", "\n">>, "yaml">>,
       <<<<"-", "-", "-", "\r", "\n">>, "yaml">>,
       <<<<"xFF", "xFE">>, "unicode_text">>,
       <<<<"xFE", "xFF">>, "unicode_text">>,
       <<<<"xEF", "xBB", "xBF">>, "utf8_bom">>,
       <<<<"s", "e", "v", "e", "r", "i", "t", "y", ",">>, "csv">>,
       <<<<"S", "E", "V", "E", "R", "I", "T", "Y", ",">>, "csv">>,
       <<<<"\"", "s", "e", "v", "e", "r", "i", "t", "y", "\"", ",">>, "csv">> >>

\* content.startswith(magic)
StartsWith(bytes, magic) ==
    /\ Len(magic) <= Len(bytes)
    /\ SubSeq(bytes, 1, Len(magic)) = magic

\* content[:n]
Slice(bytes, n) == SubSeq(bytes, 1, Min(n, Len(bytes)))

\* content.count(b)
Count(bytes, b) == Cardinality({i \in 1..Len(bytes) : bytes[i] = b})

\* the comma heuristic of detect_by_magic: the first 1024 bytes, more than 5
CsvWindow == 1024
CsvCommas == 5
ManyCommas(bytes) == Count(Slice(bytes, CsvWindow), ",") > CsvCommas

RECURSIVE FirstMagic(_, _)
\* for magic, format_type in self.MAGIC_BYTES.items(): the first that matches
FirstMagic(bytes, i) ==
    IF i > Len(MAGIC_BYTES) THEN None
    ELSE IF StartsWith(bytes, MAGIC_BYTES[i][1]) THEN MAGIC_BYTES[i][2]
    ELSE FirstMagic(bytes, i + 1)

\* A detection that counts commas before it looks at the magic bytes.
detect_by_commas_first(bytes) ==
    IF ManyCommas(bytes) THEN "csv" ELSE FirstMagic(bytes, 1)

\* FormatDetector.detect_by_magic
detect_by_magic(bytes) ==
    IF FirstMagic(bytes, 1) # None THEN FirstMagic(bytes, 1)
    ELSE IF ManyCommas(bytes) THEN "csv"
    ELSE None

\* FormatDetector.detect_encoding; the bytes of the model besides the BOMs
\* are ASCII, which decodes as utf-8
detect_encoding(bytes) ==
    IF StartsWith(bytes, <<"xEF", "xBB", "xBF">>) THEN "utf-8-sig"
    ELSE IF StartsWith(bytes, <<"xFF", "xFE">>) THEN "utf-16-le"
    ELSE IF StartsWith(bytes, <<"xFE", "xFF">>) THEN "utf-16-be"
    ELSE "utf-8"

\* FormatInfo(format_type, confidence, encoding): warnings defaults to []
FormatInfo(format_type, conf, encoding) ==
    [returned |-> TRUE, format_type |-> format_type, confidence |-> conf,
     encoding |-> encoding, warnings |-> <<>>]

\* FormatInfo(..., warnings=[warning])
Warned(info, warning) == [info EXCEPT !.warnings = <<warning>>]

\* the warnings of FormatDetector
ExtensionOnly == "Format detected by extension only"
JsonParseError == "JSON parse error"
XmlParseError == "XML parse error"
NotDetected == "Could not detect file format"

\* FormatDetector.analyze_json: 0.95 when json.loads accepts the text, 0.3 on
\* JSONDecodeError
analyze_json(c) ==
    IF c.well_formed = "json"
    THEN FormatInfo("json", 95, detect_encoding(c.bytes))
    ELSE Warned(FormatInfo("json", 30, "utf-8"), JsonParseError)

\* FormatDetector.analyze_xml: 0.9 when ET.fromstring accepts the text, 0.3 on
\* ParseError
analyze_xml(c) ==
    IF c.well_formed = "xml"
    THEN FormatInfo("xml", 90, detect_encoding(c.bytes))
    ELSE Warned(FormatInfo("xml", 30, "utf-8"), XmlParseError)

\* ext_map of detect_format
ExtMap ==
    [e \in {"json", "xml", "csv", "pdf", "xlsx", "xls", "yaml", "yml"} |->
        IF e = "yml" THEN "yaml" ELSE e]

\* FormatDetector.detect_format
detect_format(c, name) ==
    LET format_type == detect_by_magic(c.bytes)
    IN IF format_type = "json" THEN analyze_json(c)
       ELSE IF format_type = "xml" THEN analyze_xml(c)
       ELSE IF format_type \in {"csv", "pdf", "xlsx"}
       THEN FormatInfo(format_type, 80,
                       IF format_type = "csv" THEN detect_encoding(c.bytes)
                       ELSE "binary")
       ELSE IF name.given /\ name.ext \in DOMAIN ExtMap
       THEN IF name.ext = "json" THEN analyze_json(c)
            ELSE IF name.ext = "xml" THEN analyze_xml(c)
            ELSE Warned(FormatInfo(ExtMap[name.ext], 60, "utf-8"),
                        ExtensionOnly)
       ELSE Warned(FormatInfo("unknown", 0, "utf-8"), NotDetected)

\* the previews offered: a head, which is one of the magic signatures or
\* no signature, followed by up to MaxBody bytes that are commas or letters
MaxBody == 6
PlainHeads == {<<>>, <<"%", "P", "D">>, <<"{">>, <<"<", "a", ">">>}
SignatureHeads ==
    {MAGIC_BYTES[i][1] : i \in {1, 3, 4, 6, 9, 10, 11, 16}}
Bodies == UNION {[1..n -> {",", "x"}] : n \in 0..MaxBody}

\* json.loads accepts only a text that starts a JSON value, ET.fromstring
\* only one that starts with a tag
MayBeWellFormed(bytes) ==
    {"none"}
        \cup (IF bytes # <<>> /\ bytes[1] \in {"{", "["} THEN {"json"} ELSE {})
        \cup (IF bytes # <<>> /\ bytes[1] = "<" THEN {"xml"} ELSE {})

DetectNames ==
    {[given |-> FALSE, ext |-> ""]}
        \cup {[given |-> TRUE, ext |-> e] :
                  e \in {"json", "xml", "csv", "pdf", "txt"}}

NoFormatInfo ==
    [returned |-> FALSE, format_type |-> "unknown", confidence |-> 0,
     encoding |-> "utf-8", warnings |-> <<>>]

\* the most members or elements of a JSON text offered
MaxMembers == 7

\* what may follow the opening brace or bracket
Whitespace == {<<>>, <<" ">>, <<"\n">>}

RECURSIVE Members(_, _)
\* n members, separated by commas
Members(member, n) ==
    IF n = 0 THEN <<>>
    ELSE IF n = 1 THEN member
    ELSE member \o <<",">> \o Members(member, n - 1)

\* the text {"k":1,"k":1,...}
JsonObject(ws, n) ==
    <<"{">> \o ws \o Members(<<"\"", "k", "\"", ":", "1">>, n) \o <<"}">>

\* the text [1,1,...]
JsonArray(ws, n) == <<"[">> \o ws \o Members(<<"1">>, n) \o <<"]">>

\* texts that json.loads accepts
JsonTexts ==
    {JsonObject(ws, n) : ws \in Whitespace, n \in 0..MaxMembers}
        \cup {JsonArray(ws, n) : ws \in Whitespace, n \in 0..MaxMembers}

InitDetect ==
    /\ \/ \E head \in PlainHeads \cup SignatureHeads, body \in Bodies :
              \E wf \in MayBeWellFormed(head \o body) :
                  content = [bytes |-> head \o body, well_formed |-> wf]
       \/ \E text \in JsonTexts :
              content = [bytes |-> text, well_formed |-> "json"]
    /\ detect_name \in DetectNames
    /\ format_info = NoFormatInfo

DetectFormat ==
    /\ ~format_info.returned
    /\ format_info' = detect_format(content, detect_name)
    /\ UNCHANGED <<content, detect_name, restOfDetect>>

NextDetect == DetectFormat

\* no detect_format call made
DetectIdle ==
    /\ content = [bytes |-> <<>>, well_formed |-> "none"]
    /\ detect_name = [given |-> FALSE, ext |-> ""]
    /\ format_info = NoFormatInfo

(***************************************************************************)
(* SeverityMapper.map_severity.  The text is a sequence of words separated *)
(* by blanks; a CVSS score is written in tenths by ScoreOf.                *)
(***************************************************************************)
\* the words of the texts offered
NumberWords == {"9.5", "9.0", "7.0", "4.0", "0", "1", "2"}
PriorityWords == {"p0", "P1", "p2", "p3"}
KeywordWords == {"critical", "high", "highest", "moderate", "low"}
Words ==
    {"cvss", "CVSS", ":", "priority", "risk"}
        \cup NumberWords \cup PriorityWords \cup KeywordWords

\* severity_text.lower() on one word
LowerWord(w) ==
    CASE w = "CVSS" -> "cvss"
      [] w = "P1" -> "p1"
      [] OTHER -> w

\* float(number) in tenths
ScoreOf(w) ==
    CASE w = "9.5" -> 95
      [] w = "9.0" -> 90
      [] w = "7.0" -> 70
      [] w = "4.0" -> 40
      [] w = "0" -> 0
      [] w = "1" -> 10
      [] OTHER -> 20

\* int(d) of the first digit of a number
FirstDigit(w) ==
    CASE w \in {"9.5", "9.0"} -> 9
      [] w = "7.0" -> 7
      [] w = "4.0" -> 4
      [] w = "0" -> 0
      [] w = "1" -> 1
      [] OTHER -> 2

\* the digit of p0 .. p3
PriorityDigit(w) ==
    CASE w = "p0" -> 0
      [] w = "p1" -> 1
      [] w = "p2" -> 2
      [] OTHER -> 3

\* SEVERITY_KEYWORDS, in the order of the dict
SEVERITY_KEYWORDS ==
    << <<"CRITICAL", {"critical", "severe", "emergency", "urgent", "p0",
                      "priority 0", "catastrophic", "extreme", "highest"}>>,
       <<"HIGH", {"high", "important", "significant", "major", "p1",
                  "priority 1", "serious", "elevated"}>>,
       <<"MEDIUM", {"medium", "moderate", "intermediate", "p2", "priority 2",
                    "standard", "normal"}>>,
       <<"LOW", {"low", "minor", "informational", "info", "p3", "p4",
                 "priority 3", "priority 4", "minimal", "trivial"}>> >>

\* the keywords that occur in a word as substrings
KeywordsIn(w) ==
    CASE w = "highest" -> {"highest", "high"}
      [] w \in KeywordWords \cup {"p0", "p1", "p2", "p3"} -> {w}
      [] OTHER -> {}

\* the keywords that occur in the text ("priority 0" spans two words)
KeywordsInText(text) ==
    UNION {KeywordsIn(text[i]) : i \in 1..Len(text)}
        \cup {"priority " \o text[i + 1] :
                 i \in {j \in 1..(Len(text) - 1) :
                           /\ text[j] = "priority"
                           /\ text[j + 1] \in {"0", "1", "2"}}}

\* severity_text.lower().strip()
LowerText(text) == [i \in 1..Len(text) |-> LowerWord(text[i])]

\* re.search(r'cvss\s*[:]?\s*(\d+\.?\d*)'): the positions where "cvss", an
\* optional colon and a number follow each other, with the number found
CvssMatches(text) ==
    {<<i, text[i + 1]>> : i \in {j \in 1..(Len(text) - 1) :
          text[j] = "cvss" /\ text[j + 1] \in NumberWords}}
    \cup
    {<<i, text[i + 2]>> : i \in {j \in 1..(Len(text) - 2) :
          text[j] = "cvss" /\ text[j + 1] = ":" /\ text[j + 2] \in NumberWords}}

\* re.search(r'p(\d)|priority\s*(\d)'): the positions of p<digit> or of
\* "priority" followed by a number, with the digit found
PriorityMatches(text) ==
    {<<i, PriorityDigit(text[i])>> : i \in {j \in 1..Len(text) :
          text[j] \in {"p0", "p1", "p2", "p3"}}}
    \cup
    {<<i, FirstDigit(text[i + 1])>> : i \in {j \in 1..(Len(text) - 1) :
          text[j] = "priority" /\ text[j + 1] \in NumberWords}}

\* re.search returns the leftmost match
Leftmost(matches) ==
    CHOOSE m \in matches : \A o \in matches : m[1] <= o[1]

\* lines 229-236
CvssLevel(score) ==
    IF score >= 90 THEN "CRITICAL"
    ELSE IF score >= 70 THEN "HIGH"
    ELSE IF score >= 40 THEN "MEDIUM"
    ELSE "LOW"

\* lines 242-249
PriorityLevel(priority) ==
    IF priority = 0 THEN "CRITICAL"
    ELSE IF priority = 1 THEN "HIGH"
    ELSE IF priority = 2 THEN "MEDIUM"
    ELSE "LOW"

RECURSIVE KeywordLevel(_, _)
\* for level, keywords in SEVERITY_KEYWORDS.items(): the first level with a
\* keyword in the text; MEDIUM when there is none
KeywordLevel(text, i) ==
    IF i > Len(SEVERITY_KEYWORDS) THEN "MEDIUM"
    ELSE IF SEVERITY_KEYWORDS[i][2] \cap KeywordsInText(text) # {}
         THEN SEVERITY_KEYWORDS[i][1]
         ELSE KeywordLevel(text, i + 1)

\* A mapping that looks at the priority level before the CVSS score.
map_severity_priority_first(raw) ==
    LET text == LowerText(raw)
    IN IF PriorityMatches(text) # {}
       THEN PriorityLevel(Leftmost(PriorityMatches(text))[2])
       ELSE IF CvssMatches(text) # {}
       THEN CvssLevel(ScoreOf(Leftmost(CvssMatches(text))[2]))
       ELSE KeywordLevel(text, 1)

\* SeverityMapper.map_severity
map_severity(raw) ==
    LET text == LowerText(raw)
    IN IF CvssMatches(text) # {}
       THEN CvssLevel(ScoreOf(Leftmost(CvssMatches(text))[2]))
       ELSE IF PriorityMatches(text) # {}
       THEN PriorityLevel(Leftmost(PriorityMatches(text))[2])
       ELSE KeywordLevel(text, 1)

\* the longest text offered, in words
MaxWords == 3
Texts == UNION {[1..n -> Words] : n \in 0..MaxWords}

NotMapped == [returned |-> FALSE, severity |-> "MEDIUM"]

InitSeverity ==
    /\ severity_text \in Texts
    /\ mapped = NotMapped

MapSeverity ==
    /\ ~mapped.returned
    /\ mapped' = [returned |-> TRUE, severity |-> map_severity(severity_text)]
    /\ UNCHANGED <<severity_text, restOfSeverity>>

NextSeverity == MapSeverity

\* no map_severity call made
SeverityIdle ==
    /\ severity_text = <<>>
    /\ mapped = NotMapped

(***************************************************************************)
(* ConfidenceScorer.calculate_confidence.  Weights are written in units of *)
(* 0.05 (0.2 is 4, 0.15 is 3, 0.1 is 2); a score is the pair of the sum    *)
(* and of max_score, compared as the fraction sum / max_score.  A field    *)
(* is "" when it is missing or empty; a description is "short" (up to 100  *)
(* characters) or "long".                                                  *)
(***************************************************************************)
ScoredFields ==
    {"title", "severity", "description", "files", "line_numbers",
     "references", "vulnerability_type"}

\* the non-empty values a field may be populated with
ValuesOf(field) ==
    IF field = "description" THEN {"short", "long"} ELSE {"set"}

FindingDicts ==
    [title : {"", "set"}, severity : {"", "set"},
     description : {"", "short", "long"}, files : {"", "set"},
     line_numbers : {"", "set"}, references : {"", "set"},
     vulnerability_type : {"", "set"}]

\* finding.get(field), as a truth value
Populated(finding, field) == finding[field] # ""

\* len(finding['description']) > 100
DescLong(finding) == finding.description = "long"

\* A scorer for which a description earns the length bonus only.
calculate_confidence_bonus_only(finding) ==
    [num |-> Add(Populated(finding, "title"), 4)
             + Add(Populated(finding, "severity"), 4)
             + Add(Populated(finding, "description") /\ DescLong(finding), 2)
             + Add(Populated(finding, "files")
                   \/ Populated(finding, "line_numbers"), 3)
             + Add(Populated(finding, "references"), 2)
             + Add(Populated(finding, "vulnerability_type"), 2),
     den |-> 4 + 4 + Add(Populated(finding, "description"), 2) + 4 + 3 + 2 + 2]

\* ConfidenceScorer.calculate_confidence: score and max_score
calculate_confidence(finding) ==
    [num |-> Add(Populated(finding, "title"), 4)
             + Add(Populated(finding, "severity"), 4)
             + Add(Populated(finding, "description"), 4)
             + Add(Populated(finding, "description") /\ DescLong(finding), 2)
             + Add(Populated(finding, "files")
                   \/ Populated(finding, "line_numbers"), 3)
             + Add(Populated(finding, "references"), 2)
             + Add(Populated(finding, "vulnerability_type"), 2),
     den |-> 4 + 4 + Add(Populated(finding, "description"), 2) + 4 + 3 + 2 + 2]

\* a / b <= c / d for positive denominators
FractionLeq(a, b) == a.num * b.den <= b.num * a.den

InitScore ==
    /\ scored \in FindingDicts
    /\ confidence_score = calculate_confidence(scored)
    /\ score_before = confidence_score

\* a field that was missing or empty is populated and the dict scored again
PopulateField(field, value) ==
    /\ ~Populated(scored, field)
    /\ scored' = [scored EXCEPT ![field] = value]
    /\ score_before' = confidence_score
    /\ confidence_score' = calculate_confidence(scored')
    /\ UNCHANGED restOfScore

NextScore ==
    \E field \in ScoredFields : \E value \in ValuesOf(field) :
        PopulateField(field, value)

\* no finding scored
ScoreIdle ==
    /\ scored = [f \in ScoredFields |-> ""]
    /\ confidence_score = calculate_confidence(scored)
    /\ score_before = confidence_score

(***************************************************************************)
(* A Bandit report {"results": [r1..rn]} named bandit_report.json taken    *)
(* through detect_format, get_parser and BanditParser.parse_stream.  A     *)
(* record is [issue_severity, fields]: fields "full" carries test_id,      *)
(* test_name, issue_confidence and issue_text, fields "bare" carries       *)
(* issue_severity only; issue_severity "null" is the JSON null.            *)
(***************************************************************************)
\* progress cadence of BanditParser.parse_stream (the source uses 50)
bandit_progress_every == 2

\* the longest results array offered
MaxResults == 3

BanditSeverities == {"HIGH", "MEDIUM", "LOW"}
BanditResults ==
    [issue_severity : BanditSeverities, fields : {"full", "bare"}]
        \cup {[issue_severity |-> "null", fields |-> "bare"]}
BanditReports == UNION {[1..n -> BanditResults] : n \in 0..MaxResults}

\* the name of the file
BanditFilename == [word |-> "bandit", ext |-> ".json"]

\* the keys of one record
ResultKeys(result) ==
    IF result.fields = "full"
    THEN {"issue_severity", "test_id", "test_name", "issue_confidence",
          "issue_text"}
    ELSE {"issue_severity"}

\* the quoted strings that occur in the text of the report
ReportMarkers(report) ==
    {"results"} \cup UNION {ResultKeys(report[i]) : i \in 1..Len(report)}

\* the bytes of the report: it opens with {" and json.loads accepts it
ReportContent(report) ==
    [bytes |-> <<"{", "\"", "r", "e", "s", "u", "l", "t", "s", "\"", ":">>,
     well_formed |-> "json"]

\* the parsers app/parsers/__init__.py imports, in the order they register
RegisteredParsers ==
    <<"ProwlerV3Parser", "ProwlerV2Parser", "CheckovParser", "BanditParser">>

\* can_parse of each registered parser on the report
CanParseOutcomes(report) ==
    LET preview == ReportMarkers(report)
    IN [c \in ShippedParsers |->
           [raises |-> FALSE,
            conf |-> CASE c = "BanditParser" ->
                              BanditConfidence(preview, BanditFilename)
                       [] c = "CheckovParser" ->
                              CheckovConfidence(preview, BanditFilename)
                       [] c = "ProwlerV3Parser" ->
                              ProwlerV3Confidence(preview, BanditFilename)
                       [] OTHER ->
                              ProwlerV2Confidence(preview, BanditFilename)]]

\* the confidence get_parser saw for the parser it returned
SelectionConfidence(selection) ==
    LET hits == {i \in 1..Len(selection.candidates) :
                    selection.candidates[i].parser = selection.result}
    IN IF hits = {} THEN 0
       ELSE selection.candidates[CHOOSE i \in hits : TRUE].confidence

\* A _process_result that gives every finding the default severity.
process_result_default_severity(result) ==
    IF result.issue_severity = "null" THEN <<>>
    ELSE <<[title |-> IF result.fields = "full" THEN "test_name"
                      ELSE "Unknown Test",
            description |-> IF result.fields = "full" THEN "issue_text" ELSE "",
            severity |-> "MEDIUM",
            tool_source |-> "bandit"]>>

\* BanditParser._process_result: <<>> is None.  A null issue_severity makes
\* .upper() raise, which the except clause turns into None; the title is
\* test_name, else test_id, else "Unknown Test"; the description is
\* issue_text, else ""
process_result(result) ==
    IF result.issue_severity = "null" THEN <<>>
    ELSE <<[title |-> IF result.fields = "full" THEN "test_name"
                      ELSE "Unknown Test",
            description |-> IF result.fields = "full" THEN "issue_text" ELSE "",
            severity |-> IF result.issue_severity \in {"HIGH", "MEDIUM", "LOW"}
                         THEN result.issue_severity ELSE "MEDIUM",
            tool_source |-> "bandit"]>>

NoSelection ==
    [raised |-> FALSE, result |-> None, log |-> "", general |-> FALSE,
     candidates |-> <<>>]

InitBandit ==
    /\ bandit_report \in BanditReports
    /\ bandit_callback \in CallbackModes
    /\ bandit_pc = "detect"
    /\ bandit_format = NoFormatInfo
    /\ bandit_selected = NoSelection
    /\ bandit_idx = 1
    /\ bandit_count = 0
    /\ bandit_yielded = <<>>
    /\ bandit_progress = <<>>

\* ParserFactory.detect_format on the preview
BanditDetect ==
    /\ bandit_pc = "detect"
    /\ bandit_format' = detect_format(ReportContent(bandit_report),
                                      [given |-> TRUE, ext |-> "json"])
    /\ bandit_pc' = "select"
    /\ UNCHANGED <<bandit_report, bandit_callback, bandit_selected, bandit_idx,
                   bandit_count, bandit_yielded, bandit_progress, restOfBandit>>

\* ParserFactory.get_parser without a preferred tool
BanditSelect ==
    /\ bandit_pc = "select"
    /\ bandit_selected' = GeneralSelection(RegisteredParsers,
                                           CanParseOutcomes(bandit_report))
    /\ bandit_pc' = IF bandit_selected'.result = "BanditParser" THEN "loop"
                    ELSE "not_bandit"
    /\ UNCHANGED <<bandit_report, bandit_callback, bandit_format, bandit_idx,
                   bandit_count, bandit_yielded, bandit_progress, restOfBandit>>

\* for result in results: _process_result returned None, the record is skipped
BanditSkip ==
    /\ bandit_pc = "loop"
    /\ bandit_idx <= Len(bandit_report)
    /\ process_result(bandit_report[bandit_idx]) = <<>>
    /\ bandit_idx' = bandit_idx + 1
    /\ UNCHANGED <<bandit_report, bandit_callback, bandit_pc, bandit_format,
                   bandit_selected, bandit_count, bandit_yielded,
                   bandit_progress, restOfBandit>>

\* for result in results: yield finding
BanditYield ==
    /\ bandit_pc = "loop"
    /\ bandit_idx <= Len(bandit_report)
    /\ process_result(bandit_report[bandit_idx]) # <<>>
    /\ bandit_yielded' =
           bandit_yielded \o process_result(bandit_report[bandit_idx])
    /\ bandit_pc' = "resume"
    /\ UNCHANGED <<bandit_report, bandit_callback, bandit_format,
                   bandit_selected, bandit_idx, bandit_count, bandit_progress,
                   restOfBandit>>

\* after the yield: findings_count += 1 and, every bandit_progress_every
\* findings, await progress_callback(findings_count)
BanditResume ==
    /\ bandit_pc = "resume"
    /\ bandit_count' = bandit_count + 1
    /\ bandit_idx' = bandit_idx + 1
    /\ LET due == /\ bandit_callback # "none"
                  /\ bandit_count' % bandit_progress_every = 0
       IN /\ bandit_progress' =
                 IF due /\ bandit_callback = "ok"
                 THEN Append(bandit_progress, bandit_count')
                 ELSE bandit_progress
          /\ bandit_pc' = IF due /\ bandit_callback = "fails" THEN "except"
                          ELSE "loop"
    /\ UNCHANGED <<bandit_report, bandit_callback, bandit_format,
                   bandit_selected, bandit_yielded, restOfBandit>>

\* after the loop: if progress_callback and findings_count > 0
BanditFinalProgress ==
    /\ bandit_pc = "loop"
    /\ bandit_idx > Len(bandit_report)
    /\ LET due == bandit_callback # "none" /\ bandit_count > 0
       IN /\ bandit_progress' =
                 IF due /\ bandit_callback = "ok"
                 THEN Append(bandit_progress, bandit_count)
                 ELSE bandit_progress
          /\ bandit_pc' = IF due /\ bandit_callback = "fails" THEN "except"
                          ELSE "done"
    /\ UNCHANGED <<bandit_report, bandit_callback, bandit_format,
                   bandit_selected, bandit_idx, bandit_count, bandit_yielded,
                   restOfBandit>>

\* except Exception: raise ParseError
BanditRaise ==
    /\ bandit_pc = "except"
    /\ bandit_pc' = "raised"
    /\ UNCHANGED <<bandit_report, bandit_callback, bandit_format,
                   bandit_selected, bandit_idx, bandit_count, bandit_yielded,
                   bandit_progress, restOfBandit>>

NextBandit ==
    \/ BanditDetect
    \/ BanditSelect
    \/ BanditSkip
    \/ BanditYield
    \/ BanditResume
    \/ BanditFinalProgress
    \/ BanditRaise

\* no Bandit report under way
BanditIdle ==
    /\ bandit_report = <<>>
    /\ bandit_callback = "none"
    /\ bandit_pc = "idle"
    /\ bandit_format = NoFormatInfo
    /\ bandit_selected = NoSelection
    /\ bandit_idx = 1
    /\ bandit_count = 0
    /\ bandit_yielded = <<>>
    /\ bandit_progress = <<>>

(***************************************************************************)
(* ProwlerV2Parser._parse_json over {"findings": [...]}.  A record is       *)
(* [status, level, result_extended]: level "unhashable" is a JSON array,   *)
(* result_extended "absent" is a record without that key.                  *)
(***************************************************************************)
\* progress cadence of ProwlerV2Parser._parse_json (the source uses 100)
v2_progress_every == 2

\* the longest findings array offered
MaxV2Records == 3

V2Records ==
    [status : {"PASS", "FAIL"},
     level : {"High", "Unknown", "unhashable"},
     result_extended : {"text", "absent"}]
V2Reports == UNION {[1..n -> V2Records] : n \in 0..MaxV2Records}

\* ProwlerV2Parser._process_v2_finding: <<>> is None.  severity_map.get of a
\* list raises TypeError, which the except clause turns into None; a level
\* outside the map becomes MEDIUM; the description is result_extended,
\* else ""
process_v2_finding(finding_data) ==
    IF finding_data.level = "unhashable" THEN <<>>
    ELSE <<[title |-> "check_title",
            description |-> IF finding_data.result_extended = "text"
                            THEN "result_extended" ELSE "",
            severity |-> IF finding_data.level = "High" THEN "HIGH"
                         ELSE "MEDIUM",
            tool_source |-> "prowler"]>>

\* the completed callback: its argument and the findings yielded by then
Notified(value, so_far) == [value |-> value, yielded |-> Len(so_far)]

InitV2 ==
    /\ v2_findings \in V2Reports
    /\ v2_callback \in CallbackModes
    /\ v2_pc = "loop"
    /\ v2_idx = 1
    /\ v2_yielded = <<>>
    /\ v2_progress = <<>>

\* if finding_data.get("status") == "PASS": continue
V2SkipPass ==
    /\ v2_pc = "loop"
    /\ v2_idx <= Len(v2_findings)
    /\ v2_findings[v2_idx].status = "PASS"
    /\ v2_idx' = v2_idx + 1
    /\ UNCHANGED <<v2_findings, v2_callback, v2_pc, v2_yielded, v2_progress,
                   restOfV2>>

\* finding = await self._process_v2_finding(finding_data);
\* if finding: yield finding
V2Process ==
    /\ v2_pc = "loop"
    /\ v2_idx <= Len(v2_findings)
    /\ v2_findings[v2_idx].status # "PASS"
    /\ v2_yielded' = v2_yielded \o process_v2_finding(v2_findings[v2_idx])
    /\ v2_pc' = "progress"
    /\ UNCHANGED <<v2_findings, v2_callback, v2_idx, v2_progress, restOfV2>>

\* if progress_callback and (idx + 1) % 100 == 0:
\*     await progress_callback(idx + 1)
V2Progress ==
    /\ v2_pc = "progress"
    /\ LET due == v2_callback # "none" /\ v2_idx % v2_progress_every = 0
       IN /\ v2_progress' =
                 IF due /\ v2_callback = "ok"
                 THEN Append(v2_progress, Notified(v2_idx, v2_yielded))
                 ELSE v2_progress
          /\ v2_pc' = IF due /\ v2_callback = "fails" THEN "except" ELSE "loop"
    /\ v2_idx' = v2_idx + 1
    /\ UNCHANGED <<v2_findings, v2_callback, v2_yielded, restOfV2>>

\* if progress_callback and findings: await progress_callback(len(findings))
V2FinalProgress ==
    /\ v2_pc = "loop"
    /\ v2_idx > Len(v2_findings)
    /\ LET due == v2_callback # "none" /\ Len(v2_findings) > 0
       IN /\ v2_progress' =
                 IF due /\ v2_callback = "ok"
                 THEN Append(v2_progress,
                             Notified(Len(v2_findings), v2_yielded))
                 ELSE v2_progress
          /\ v2_pc' = IF due /\ v2_callback = "fails" THEN "except" ELSE "done"
    /\ UNCHANGED <<v2_findings, v2_callback, v2_idx, v2_yielded, restOfV2>>

\* parse_stream: except Exception -> raise ParseError
V2Raise ==
    /\ v2_pc = "except"
    /\ v2_pc' = "raised"
    /\ UNCHANGED <<v2_findings, v2_callback, v2_idx, v2_yielded, v2_progress,
                   restOfV2>>

NextV2 ==
    \/ V2SkipPass
    \/ V2Process
    \/ V2Progress
    \/ V2FinalProgress
    \/ V2Raise

\* no Prowler v2 report under way
V2Idle ==
    /\ v2_findings = <<>>
    /\ v2_callback = "none"
    /\ v2_pc = "idle"
    /\ v2_idx = 1
    /\ v2_yielded = <<>>
    /\ v2_progress = <<>>

(***************************************************************************)
(* ParserFactory.parse_file with the shipped parsers registered            *)
(***************************************************************************)
\* the most findings a parser yields for the file
MaxEmitted == 2

ShippedInputs == [ShippedParsers -> Outcomes]

\* app.parsers.base.ParseError, "Base exception for parser errors", the
\* class factory.py imports
BaseParseError == "app.parsers.base.ParseError"

NotEnded == [kind |-> "running", class |-> ""]
ReturnedFindings == [kind |-> "returned", class |-> ""]
RaisedException(class) == [kind |-> "raised", class |-> class]

InitParseFile ==
    /\ pf_file \in ShippedInputs
    /\ pf_emits \in 0..MaxEmitted
    /\ pf_stream_fails \in BOOLEAN
    /\ pf_pc = "get_parser"
    /\ pf_parser = None
    /\ pf_tracked = "none"
    /\ pf_outcome = NotEnded

\* parser = await self.get_parser(preview, file_path.name)
ParseFileGetParser ==
    /\ pf_pc = "get_parser"
    /\ pf_parser' = get_parser(RegisteredParsers, <<>>, pf_file, NoTool).result
    /\ pf_pc' = IF pf_parser' = None THEN "no_parser" ELSE "parsing"
    /\ UNCHANGED <<pf_file, pf_emits, pf_stream_fails, pf_tracked, pf_outcome,
                   restOfParseFile>>

\* if not parser: raise ParseError(f"No parser available for ...")
ParseFileNoParser ==
    /\ pf_pc = "no_parser"
    /\ pf_outcome' = RaisedException(BaseParseError)
    /\ pf_pc' = "ended"
    /\ UNCHANGED <<pf_file, pf_emits, pf_stream_fails, pf_parser, pf_tracked,
                   restOfParseFile>>

\* async for finding in parser.parse_with_recovery(...): the first finding
\* reaches findings.append(finding.model_dump()); Finding is the SQLAlchemy
\* model and has no model_dump, so AttributeError is raised, tracked as a
\* failure and re-raised
ParseFileFirstFinding ==
    /\ pf_pc = "parsing"
    /\ pf_emits > 0
    /\ pf_tracked' = "failure"
    /\ pf_outcome' = RaisedException("AttributeError")
    /\ pf_pc' = "ended"
    /\ UNCHANGED <<pf_file, pf_emits, pf_stream_fails, pf_parser,
                   restOfParseFile>>

\* parse_with_recovery ends without a finding, after swallowing the
\* exception of parse_stream if it raised: success is tracked and the empty
\* list returned
ParseFileNoFinding ==
    /\ pf_pc = "parsing"
    /\ pf_emits = 0
    /\ pf_tracked' = "success"
    /\ pf_outcome' = ReturnedFindings
    /\ pf_pc' = "ended"
    /\ UNCHANGED <<pf_file, pf_emits, pf_stream_fails, pf_parser,
                   restOfParseFile>>

NextParseFile ==
    \/ ParseFileGetParser
    \/ ParseFileNoParser
    \/ ParseFileFirstFinding
    \/ ParseFileNoFinding

\* no parse_file call under way
ParseFileIdle ==
    /\ pf_file = [c \in ShippedParsers |-> [raises |-> FALSE, conf |-> 0]]
    /\ pf_emits = 0
    /\ pf_stream_fails = FALSE
    /\ pf_pc = "idle"
    /\ pf_parser = None
    /\ pf_tracked = "none"
    /\ pf_outcome = NotEnded

(***************************************************************************)
(* ConnectionManager: connect, join_room, leave_room, disconnect.  None of *)
(* join_room, leave_room and disconnect awaits, so each runs atomically.   *)
(***************************************************************************)
\* the rooms clients may join
NumRooms == 2

\* ConnectionManager.max_connections
max_connections == 100

Clients == {"client-1", "client-2"}
RoomNames == 1..NumRooms

\* leave_room: the room and the connection's own set both drop the pair
leave_room(state, client_id, room) ==
    [rooms |-> [state.rooms EXCEPT ![room] = @ \ {client_id}],
     connection_rooms |->
         IF client_id \in state.active_connections
         THEN [state.connection_rooms EXCEPT ![client_id] = @ \ {room}]
         ELSE state.connection_rooms,
     active_connections |-> state.active_connections]

\* disconnect of a connected client, first being the room the iteration of
\* connection.rooms visits first (0 when the set is empty).  With no room
\* the connection is deleted.  Otherwise leave_room(client_id, first)
\* discards first from the very set being iterated, so the next step of the
\* for loop raises RuntimeError("Set changed size during iteration") and
\* "del self.active_connections[client_id]" is never reached
disconnect(state, client_id, first) ==
    IF state.connection_rooms[client_id] = {}
    THEN [rooms |-> state.rooms,
          connection_rooms |-> state.connection_rooms,
          active_connections |-> state.active_connections \ {client_id},
          raised |-> FALSE]
    ELSE LET left == leave_room(state, client_id, first)
         IN [rooms |-> left.rooms,
             connection_rooms |-> left.connection_rooms,
             active_connections |-> left.active_connections,
             raised |-> TRUE]

\* the fields of the manager
Manager ==
    [rooms |-> rooms, connection_rooms |-> connection_rooms,
     active_connections |-> active_connections]

InitWs ==
    /\ active_connections = {}
    /\ rooms = [r \in RoomNames |-> {}]
    /\ connection_rooms = [c \in Clients |-> {}]
    /\ ws_last = [op |-> "init", client |-> "", had_rooms |-> FALSE,
                  raised |-> FALSE]

\* connect(client_id, websocket): refused at the connection limit; else a
\* new ConnectionInfo, with no room, replaces whatever was stored under
\* client_id, and the handshake is sent; a handshake that cannot be sent
\* makes send_personal_message disconnect the client again
Connect(client_id, sent) ==
    /\ Cardinality(active_connections) < max_connections
    /\ connection_rooms' = [connection_rooms EXCEPT ![client_id] = {}]
    /\ active_connections' =
           IF sent THEN active_connections \cup {client_id}
           ELSE active_connections \ {client_id}
    /\ ws_last' = [op |-> "connect", client |-> client_id,
                   had_rooms |-> FALSE, raised |-> FALSE]
    /\ UNCHANGED <<rooms, restOfWs>>

\* join_room(client_id, room)
JoinRoom(client_id, room) ==
    /\ client_id \in active_connections
    /\ rooms' = [rooms EXCEPT ![room] = @ \cup {client_id}]
    /\ connection_rooms' =
           [connection_rooms EXCEPT ![client_id] = @ \cup {room}]
    /\ ws_last' = [op |-> "join_room", client |-> client_id,
                   had_rooms |-> FALSE, raised |-> FALSE]
    /\ UNCHANGED <<active_connections, restOfWs>>

\* leave_room(client_id, room)
LeaveRoom(client_id, room) ==
    /\ rooms' = leave_room(Manager, client_id, room).rooms
    /\ connection_rooms' =
           leave_room(Manager, client_id, room).connection_rooms
    /\ ws_last' = [op |-> "leave_room", client |-> client_id,
                   had_rooms |-> FALSE, raised |-> FALSE]
    /\ UNCHANGED <<active_connections, restOfWs>>

\* disconnect(client_id) of a connected client; the order in which the set
\* connection.rooms is iterated is not fixed
Disconnect(client_id) ==
    /\ client_id \in active_connections
    /\ \E first \in connection_rooms[client_id] \cup {0} :
           /\ first = 0 <=> connection_rooms[client_id] = {}
           /\ LET r == disconnect(Manager, client_id, first)
              IN /\ rooms' = r.rooms
                 /\ connection_rooms' = r.connection_rooms
                 /\ active_connections' = r.active_connections
                 /\ ws_last' = [op |-> "disconnect", client |-> client_id,
                                had_rooms |->
                                    connection_rooms[client_id] # {},
                                raised |-> r.raised]
    /\ UNCHANGED restOfWs

NextWs ==
    \/ \E c \in Clients, sent \in BOOLEAN : Connect(c, sent)
    \/ \E c \in Clients, r \in RoomNames : JoinRoom(c, r)
    \/ \E c \in Clients, r \in RoomNames : LeaveRoom(c, r)
    \/ \E c \in Clients : Disconnect(c)

\* no connection manager in use
WsIdle ==
    /\ active_connections = {}
    /\ rooms = [r \in RoomNames |-> {}]
    /\ connection_rooms = [c \in Clients |-> {}]
    /\ ws_last = [op |-> "idle", client |-> "", had_rooms |-> FALSE,
                  raised |-> FALSE]

(***************************************************************************)
(* The event loop of ProwlerV3Parser.parse_stream, event by event, over a  *)
(* file of one record that has a compliance sub-object                     *)
(***************************************************************************)
\* the most controls listed under one framework
MaxControls == 2

Frameworks == {<<>>, <<"CIS">>, <<"PCI">>, <<"CIS", "PCI">>}

\* the controls listed under a framework: "c1", "c2", ...
Controls(n) == [i \in 1..n |-> Str("c" \o ToString(i))]

\* {"check_id": "1", "status": "FAIL", "compliance": {name: [...], ...},
\*  "severity": "high"}; sizes[i] controls under the i-th framework
ComplianceRecord(names, sizes) ==
    Obj(<<<<"check_id", Str("1")>>,
          <<"status", Str("FAIL")>>,
          <<"compliance",
            Obj([i \in 1..Len(names) |->
                    <<names[i], Arr(Controls(sizes[i]))>>])>>,
          <<"severity", Str("high")>>>>)

ComplianceRecords ==
    UNION {{ComplianceRecord(names, sizes) :
               sizes \in [1..Len(names) -> 0..MaxControls]} :
           names \in Frameworks}

\* ijson.parse over {"findings": [record]}
RecordEvents(rec) ==
    ValueEvents(<<>>, Obj(<<<<"findings", Arr(<<rec>>)>>>>))

\* the locals of parse_stream before the loop
InitLocals ==
    [current_finding |-> <<>>,
     in_findings_array |-> FALSE,
     in_finding_object |-> FALSE,
     in_compliance |-> FALSE,
     current_compliance_framework |-> None,
     batch |-> <<>>,
     findings_count |-> 0,
     suspend |-> FALSE]

InitAccumulate ==
    /\ acc_record \in ComplianceRecords
    /\ acc_pos = 1
    /\ acc_locals = InitLocals

\* one turn of "for prefix, event, value in parser"
AccumulateEvent ==
    /\ acc_pos <= Len(RecordEvents(acc_record))
    /\ acc_locals' = HandleEvent(acc_locals, RecordEvents(acc_record)[acc_pos])
    /\ acc_pos' = acc_pos + 1
    /\ UNCHANGED <<acc_record, restOfAccumulate>>

NextAccumulate == AccumulateEvent

\* no record being accumulated
AccumulateIdle ==
    /\ acc_record = Null
    /\ acc_pos = 0
    /\ acc_locals = InitLocals

(***************************************************************************)
(* DocxParser._extract_from_tables on one table.  A text is the sequence   *)
(* of its characters, lower case and stripped.                             *)
(***************************************************************************)
\* the most columns and the most data rows of a table
MaxColumns == 2
MaxRows == 1

\* "sub in s"
Contains(s, sub) ==
    \E i \in 0..(Len(s) - Len(sub)) : SubSeq(s, i + 1, i + Len(sub)) = sub

\* any(term in key for term in terms)
AnyTermIn(terms, key) == \E term \in terms : Contains(key, term)

\* TABLE_HEADER_MAPPINGS, in dict order
TABLE_HEADER_MAPPINGS ==
    <<
       <<"severity",
         <<
            <<"s", "e", "v", "e", "r", "i", "t", "y">>,
            <<"r", "i", "s", "k">>,
            <<"r", "i", "s", "k", " ", "l", "e", "v", "e", "l">>,
            <<"p", "r", "i", "o", "r", "i", "t", "y">>,
            <<"c", "r", "i", "t", "i", "c", "a", "l", "i", "t", "y">>,
            <<"l", "e", "v", "e", "l">>,
            <<"r", "a", "t", "i", "n", "g">>,
            <<"s", "c", "o", "r", "e">>,
            <<"i", "m", "p", "a", "c", "t">> >> >>,
       <<"title",
         <<
            <<"t", "i", "t", "l", "e">>,
            <<"f", "i", "n", "d", "i", "n", "g">>,
            <<"i", "s", "s", "u", "e">>,
            <<"v", "u", "l", "n", "e", "r", "a", "b", "i", "l", "i", "t", "y">>,
            <<"n", "a", "m", "e">>,
            <<"s", "u", "m", "m", "a", "r", "y">>,
            <<"h", "e", "a", "d", "i", "n", "g">>,
            <<"f", "i", "n", "d", "i", "n", "g", " ", "t", "i", "t", "l", "e">>,
            <<"i", "s", "s", "u", "e", " ", "n", "a", "m", "e">> >> >>,
       <<"description",
         <<
            <<"d", "e", "s", "c", "r", "i", "p", "t", "i", "o", "n">>,
            <<"d", "e", "t", "a", "i", "l", "s">>,
            <<"d", "e", "t", "a", "i", "l">>,
            <<"s", "u", "m", "m", "a", "r", "y">>,
            <<"e", "x", "p", "l", "a", "n", "a", "t", "i", "o", "n">>,
            <<"d", "e", "s", "c">>,
            <<"f", "i", "n", "d", "i", "n", "g", " ", "d", "e", "s", "c", "r", "i", "p", "t", "i", "o", "n">>,
            <<"i", "s", "s", "u", "e", " ", "d", "e", "s", "c", "r", "i", "p", "t", "i", "o", "n">>,
            <<"n", "o", "t", "e", "s">> >> >>,
       <<"resource",
         <<
            <<"r", "e", "s", "o", "u", "r", "c", "e">>,
            <<"f", "i", "l", "e">>,
            <<"f", "i", "l", "e", "n", "a", "m", "e">>,
            <<"l", "o", "c", "a", "t", "i", "o", "n">>,
            <<"p", "a", "t", "h">>,
            <<"a", "f", "f", "e", "c", "t", "e", "d", " ", "r", "e", "s", "o", "u", "r", "c", "e">>,
            <<"c", "o", "m", "p", "o", "n", "e", "n", "t">>,
            <<"a", "s", "s", "e", "t">>,
            <<"t", "a", "r", "g", "e", "t">> >> >>,
       <<"recommendation",
         <<
            <<"r", "e", "c", "o", "m", "m", "e", "n", "d", "a", "t", "i", "o", "n">>,
            <<"r", "e", "m", "e", "d", "i", "a", "t", "i", "o", "n">>,
            <<"f", "i", "x">>,
            <<"s", "o", "l", "u", "t", "i", "o", "n">>,
            <<"m", "i", "t", "i", "g", "a", "t", "i", "o", "n">>,
            <<"a", "c", "t", "i", "o", "n">>,
            <<"r", "e", "s", "o", "l", "u", "t", "i", "o", "n">>,
            <<"s", "u", "g", "g", "e", "s", "t", "e", "d", " ", "f", "i", "x">> >> >>,
       <<"references",
         <<
            <<"r", "e", "f", "e", "r", "e", "n", "c", "e">>,
            <<"r", "e", "f", "e", "r", "e", "n", "c", "e", "s">>,
            <<"c", "w", "e">>,
            <<"c", "v", "e">>,
            <<"l", "i", "n", "k">>,
            <<"u", "r", "l">>,
            <<"s", "o", "u", "r", "c", "e">>,
            <<"s", "t", "a", "n", "d", "a", "r", "d">>,
            <<"c", "o", "m", "p", "l", "i", "a", "n", "c", "e">> >> >> >>

\* for variation in variations: variation in header_clean or header_clean in
\* variation
MatchesField(f, header) ==
    \E k \in 1..Len(TABLE_HEADER_MAPPINGS[f][2]) :
        \/ Contains(header, TABLE_HEADER_MAPPINGS[f][2][k])
        \/ Contains(TABLE_HEADER_MAPPINGS[f][2][k], header)

RECURSIVE MapHeaders(_, _, _, _)
\* "for header in headers" of one field, from header number i on: a header
\* that matches is with_header to the field; the loop is left at the first header
\* that is in the mapping, whichever field put it there
MapHeaders(mapping, f, headers, i) ==
    IF i > Len(headers) THEN mapping
    ELSE LET header == headers[i]
             with_header == IF MatchesField(f, header)
                       THEN DictSet(mapping, header, TABLE_HEADER_MAPPINGS[f][1])
                       ELSE mapping
         IN IF header \in DOMAIN with_header THEN with_header
            ELSE MapHeaders(with_header, f, headers, i + 1)

RECURSIVE MapFields(_, _, _)
\* "for field, variations in TABLE_HEADER_MAPPINGS.items()", from field f on
MapFields(mapping, f, headers) ==
    IF f > Len(TABLE_HEADER_MAPPINGS) THEN mapping
    ELSE MapFields(MapHeaders(mapping, f, headers, 1), f + 1, headers)

\* DocxParser._map_table_headers
map_table_headers(headers) == MapFields(<<>>, 1, headers)

\* the text of a cell as a string: the cell texts of the model
TextOf(cell) ==
    CASE cell = <<"h", "i", "g", "h">> -> "high"
      [] cell = <<"s", "e", "v", "e", "r", "i", "t", "y">> -> "severity"
      [] cell = <<"r", "e", "s", "o", "u", "r", "c", "e">> -> "resource"
      [] cell = <<"t", "i", "t", "l", "e">> -> "title"
      [] cell = <<"f", "i", "n", "d", "i", "n", "g">> -> "finding"
      [] cell = <<"i", "d">> -> "id"
      [] OTHER -> ""

\* self.severity_mapper.map_severity(value).value
SeverityValue(cell) == map_severity(<<TextOf(cell)>>)

RECURSIVE RowFinding(_, _, _, _, _)
\* "for i, cell in enumerate(cells)" of one data row: finding[field] = value
\* for the non-empty cells under a with_header header
RowFinding(finding, headers, mapping, cells, i) ==
    IF i > Len(cells) THEN finding
    ELSE RowFinding(
             IF /\ i <= Len(headers)
                /\ headers[i] \in DOMAIN mapping
                /\ cells[i] # <<>>
             THEN DictSet(finding, mapping[headers[i]], TextOf(cells[i]))
             ELSE finding,
             headers, mapping, cells, i + 1)

\* finding.get('title') or finding.get('description')
HasKeyField(finding) ==
    \/ "title" \in DOMAIN finding /\ finding["title"] # ""
    \/ "description" \in DOMAIN finding /\ finding["description"] # ""

RECURSIVE MappedRows(_, _, _, _)
\* "for row in table.rows[1:]": the findings of the data rows from row r on
MappedRows(rows, headers, mapping, r) ==
    IF r > Len(rows) THEN <<>>
    ELSE LET finding == RowFinding(<<>>, headers, mapping, rows[r], 1)
         IN (IF HasKeyField(finding)
             THEN <<IF "severity" \in DOMAIN finding
                    THEN DictSet(finding, "severity",
                                 map_severity(<<finding["severity"]>>))
                    ELSE finding>>
             ELSE <<>>)
                \o MappedRows(rows, headers, mapping, r + 1)

\* the terms of _extract_key_value_table
TitleTerms == {<<"f", "i", "n", "d", "i", "n", "g">>, <<"i", "s", "s", "u", "e">>, <<"v", "u", "l", "n", "e", "r", "a", "b", "i", "l", "i", "t", "y">>, <<"t", "i", "t", "l", "e">>}
SeverityTerms == {<<"s", "e", "v", "e", "r", "i", "t", "y">>, <<"r", "i", "s", "k">>, <<"p", "r", "i", "o", "r", "i", "t", "y">>}
DescriptionTerms == {<<"d", "e", "s", "c", "r", "i", "p", "t", "i", "o", "n">>, <<"d", "e", "t", "a", "i", "l", "s">>, <<"s", "u", "m", "m", "a", "r", "y">>}
RecommendationTerms == {<<"r", "e", "c", "o", "m", "m", "e", "n", "d", "a", "t", "i", "o", "n">>, <<"r", "e", "m", "e", "d", "i", "a", "t", "i", "o", "n">>, <<"f", "i", "x">>}
ResourceTerms == {<<"f", "i", "l", "e">>, <<"r", "e", "s", "o", "u", "r", "c", "e">>, <<"l", "o", "c", "a", "t", "i", "o", "n">>}

RECURSIVE KeyValueRows(_, _, _, _)
\* _extract_key_value_table: "for row in table.rows" from row r on, then
\* "Add last finding"
KeyValueRows(rows, findings, open_finding, r) ==
    IF r > Len(rows)
    THEN IF open_finding # <<>> /\ HasKeyField(open_finding)
         THEN Append(findings, open_finding) ELSE findings
    ELSE IF Len(rows[r]) < 2 \/ rows[r][1] = <<>> \/ rows[r][2] = <<>>
    THEN KeyValueRows(rows, findings, open_finding, r + 1)
    ELSE LET key == rows[r][1]
             value == rows[r][2]
         IN IF AnyTermIn(TitleTerms, key)
            THEN KeyValueRows(rows,
                     IF open_finding # <<>>
                     THEN Append(findings, open_finding) ELSE findings,
                     DictSet(<<>>, "title", TextOf(value)), r + 1)
            ELSE IF AnyTermIn(SeverityTerms, key)
            THEN KeyValueRows(rows, findings,
                     DictSet(open_finding, "severity", SeverityValue(value)),
                     r + 1)
            ELSE IF AnyTermIn(DescriptionTerms, key)
            THEN KeyValueRows(rows, findings,
                     DictSet(open_finding, "description", TextOf(value)),
                     r + 1)
            ELSE IF AnyTermIn(RecommendationTerms, key)
            THEN KeyValueRows(rows, findings,
                     DictSet(open_finding, "recommendation", TextOf(value)),
                     r + 1)
            ELSE IF AnyTermIn(ResourceTerms, key)
            THEN KeyValueRows(rows, findings,
                     DictSet(open_finding, "resource", TextOf(value)), r + 1)
            ELSE KeyValueRows(rows, findings, open_finding, r + 1)

\* _extract_from_tables, the body of "for table in tables": a table without
\* rows is skipped; the key-value extraction is taken when the mapping is
\* empty ("if not field_mapping"); otherwise the data rows go through the
\* mapping
extract_from_table(rows) ==
    IF rows = <<>> THEN [route |-> "skipped", findings |-> <<>>]
    ELSE LET headers == rows[1]
             field_mapping == map_table_headers(headers)
         IN IF field_mapping = <<>>
            THEN [route |-> "key_value",
                  findings |-> KeyValueRows(rows, <<>>, <<>>, 1)]
            ELSE [route |-> "header_mapping",
                  findings |-> MappedRows(rows, headers, field_mapping, 2)]

\* the header texts and the cell texts offered
HeaderTexts ==
    {<<"s", "e", "v", "e", "r", "i", "t", "y">>,
     <<"r", "e", "s", "o", "u", "r", "c", "e">>,
     <<"t", "i", "t", "l", "e">>,
     <<"f", "i", "n", "d", "i", "n", "g">>,
     <<"i", "d">>}
CellTexts == {<<>>, <<"h", "i", "g", "h">>}

\* tables of 1..MaxColumns columns and up to MaxRows data rows
Tables ==
    UNION {{<<headers>> \o data :
               headers \in [1..n -> HeaderTexts],
               data \in UNION {[1..k -> [1..n -> CellTexts]] : k \in 0..MaxRows}} :
           n \in 1..MaxColumns}

NotExtracted == [route |-> "none", findings |-> <<>>]

InitTable ==
    /\ table \in Tables
    /\ table_result = NotExtracted

ExtractFromTable ==
    /\ table_result = NotExtracted
    /\ table_result' = extract_from_table(table)
    /\ UNCHANGED <<table, restOfTable>>

NextTable == ExtractFromTable

\* no table being extracted
TableIdle ==
    /\ table = <<>>
    /\ table_result = [route |-> "idle", findings |-> <<>>]

(***************************************************************************)
(* Specifications                                                          *)
(***************************************************************************)
vars == <<regVars, streamVars, metricVars, canParseVars, detectVars,
    severityVars, scoreVars, banditVars, v2Vars, pfVars, wsVars, accVars,
    tableVars>>

InitRegistrySpec ==
    /\ InitRegistry
    /\ StreamIdle
    /\ MetricsIdle
    /\ CanParseIdle
    /\ DetectIdle
    /\ SeverityIdle
    /\ ScoreIdle
    /\ BanditIdle
    /\ V2Idle
    /\ ParseFileIdle
    /\ WsIdle
    /\ AccumulateIdle
    /\ TableIdle

InitStreamSpec ==
    /\ InitStreamCall
    /\ RegistryIdle
    /\ MetricsIdle
    /\ CanParseIdle
    /\ DetectIdle
    /\ SeverityIdle
    /\ ScoreIdle
    /\ BanditIdle
    /\ V2Idle
    /\ ParseFileIdle
    /\ WsIdle
    /\ AccumulateIdle
    /\ TableIdle

InitMetricsSpec ==
    /\ InitMetrics
    /\ RegistryIdle
    /\ StreamIdle
    /\ CanParseIdle
    /\ DetectIdle
    /\ SeverityIdle
    /\ ScoreIdle
    /\ BanditIdle
    /\ V2Idle
    /\ ParseFileIdle
    /\ WsIdle
    /\ AccumulateIdle
    /\ TableIdle

InitCanParseSpec ==
    /\ InitCanParse
    /\ RegistryIdle
    /\ StreamIdle
    /\ MetricsIdle
    /\ DetectIdle
    /\ SeverityIdle
    /\ ScoreIdle
    /\ BanditIdle
    /\ V2Idle
    /\ ParseFileIdle
    /\ WsIdle
    /\ AccumulateIdle
    /\ TableIdle

InitDetectSpec ==
    /\ InitDetect
    /\ RegistryIdle
    /\ StreamIdle
    /\ MetricsIdle
    /\ CanParseIdle
    /\ SeverityIdle
    /\ ScoreIdle
    /\ BanditIdle
    /\ V2Idle
    /\ ParseFileIdle
    /\ WsIdle
    /\ AccumulateIdle
    /\ TableIdle

InitSeveritySpec ==
    /\ InitSeverity
    /\ RegistryIdle
    /\ StreamIdle
    /\ MetricsIdle
    /\ CanParseIdle
    /\ DetectIdle
    /\ ScoreIdle
    /\ BanditIdle
    /\ V2Idle
    /\ ParseFileIdle
    /\ WsIdle
    /\ AccumulateIdle
    /\ TableIdle

InitScoreSpec ==
    /\ InitScore
    /\ RegistryIdle
    /\ StreamIdle
    /\ MetricsIdle
    /\ CanParseIdle
    /\ DetectIdle
    /\ SeverityIdle
    /\ BanditIdle
    /\ V2Idle
    /\ ParseFileIdle
    /\ WsIdle
    /\ AccumulateIdle
    /\ TableIdle

InitBanditSpec ==
    /\ InitBandit
    /\ RegistryIdle
    /\ StreamIdle
    /\ MetricsIdle
    /\ CanParseIdle
    /\ DetectIdle
    /\ SeverityIdle
    /\ ScoreIdle
    /\ V2Idle
    /\ ParseFileIdle
    /\ WsIdle
    /\ AccumulateIdle
    /\ TableIdle

InitV2Spec ==
    /\ InitV2
    /\ RegistryIdle
    /\ StreamIdle
    /\ MetricsIdle
    /\ CanParseIdle
    /\ DetectIdle
    /\ SeverityIdle
    /\ ScoreIdle
    /\ BanditIdle
    /\ ParseFileIdle
    /\ WsIdle
    /\ AccumulateIdle
    /\ TableIdle

InitParseFileSpec ==
    /\ InitParseFile
    /\ RegistryIdle
    /\ StreamIdle
    /\ MetricsIdle
    /\ CanParseIdle
    /\ DetectIdle
    /\ SeverityIdle
    /\ ScoreIdle
    /\ BanditIdle
    /\ V2Idle
    /\ WsIdle
    /\ AccumulateIdle
    /\ TableIdle

InitWsSpec ==
    /\ InitWs
    /\ RegistryIdle
    /\ StreamIdle
    /\ MetricsIdle
    /\ CanParseIdle
    /\ DetectIdle
    /\ SeverityIdle
    /\ ScoreIdle
    /\ BanditIdle
    /\ V2Idle
    /\ ParseFileIdle
    /\ AccumulateIdle
    /\ TableIdle

InitAccumulateSpec ==
    /\ InitAccumulate
    /\ RegistryIdle
    /\ StreamIdle
    /\ MetricsIdle
    /\ CanParseIdle
    /\ DetectIdle
    /\ SeverityIdle
    /\ ScoreIdle
    /\ BanditIdle
    /\ V2Idle
    /\ ParseFileIdle
    /\ WsIdle
    /\ TableIdle

InitTableSpec ==
    /\ InitTable
    /\ RegistryIdle
    /\ StreamIdle
    /\ MetricsIdle
    /\ CanParseIdle
    /\ DetectIdle
    /\ SeverityIdle
    /\ ScoreIdle
    /\ BanditIdle
    /\ V2Idle
    /\ ParseFileIdle
    /\ WsIdle
    /\ AccumulateIdle

\* the registry and the factory at work, no parse running
SpecRegistry == InitRegistrySpec /\ [][NextRegistry]_vars

\* one parse_stream call driven by parse_with_recovery, the registry idle
SpecStream == InitStreamSpec /\ [][NextStream]_vars

\* concurrent track_metrics calls of parse operations for one tool
SpecMetrics == InitMetricsSpec /\ [][NextMetrics]_vars

\* one can_parse call of a shipped parser on one preview and filename
SpecCanParse == InitCanParseSpec /\ [][NextCanParse]_vars

\* one detect_format call on one preview and filename
SpecDetect == InitDetectSpec /\ [][NextDetect]_vars

\* one map_severity call on one text
SpecSeverity == InitSeveritySpec /\ [][NextSeverity]_vars

\* a finding dict scored by calculate_confidence as its fields are populated
SpecScore == InitScoreSpec /\ [][NextScore]_vars

\* a Bandit report detected, a parser selected for it and parsed by BanditParser.parse_stream
SpecBandit == InitBanditSpec /\ [][NextBandit]_vars

\* a Prowler v2 JSON report parsed by ProwlerV2Parser._parse_json
SpecV2 == InitV2Spec /\ [][NextV2]_vars

\* ParserFactory.parse_file with the shipped parsers registered
SpecParseFile == InitParseFileSpec /\ [][NextParseFile]_vars

\* a ConnectionManager serving connect, join_room, leave_room and disconnect calls
SpecWs == InitWsSpec /\ [][NextWs]_vars

\* the event loop of parse_stream taken event by event over one record with a compliance sub-object
SpecAccumulate == InitAccumulateSpec /\ [][NextAccumulate]_vars

\* one table taken through DocxParser._extract_from_tables
SpecTable == InitTableSpec /\ [][NextTable]_vars

(***************************************************************************)
(* Claims about parse_stream and parse_with_recovery (checked under        *)
(* SpecStream)                                                             *)
(***************************************************************************)
\* the scalar members of a record object itself, as a dict
OwnFields(rec) ==
    LET scalar == {j \in 1..Len(rec.v) : rec.v[j][2].t \notin {"object", "array"}}
    IN [k \in {rec.v[j][1] : j \in scalar} |->
           rec.v[CHOOSE j \in scalar :
                     /\ rec.v[j][1] = k
                     /\ \A h \in scalar : rec.v[h][1] = k => h <= j][2]]

\* a record qualifies when, taken by its own top-level fields, it is no PASS
\* record and converts to a finding
Qualifying(rec) == process_finding(OwnFields(rec)) # <<>>
AllQualifying ==
    \A i \in 1..Len(buffer) : Qualifying(Record(buffer[i], i))

\* the titles of a list of findings; the finding of record i is titled i
Titles(fs) == [i \in 1..Len(fs) |-> fs[i].title.v]
Ids(n) == [i \in 1..n |-> ToString(i)]

Finished == pc \in {"done", "raised"}

\* C1: an input of N qualifying records (none with status PASS) and a valid
\* closure makes parse_stream yield exactly N findings, in the order of the
\* records, also across batch flushes.
C1_YieldsExactlyNInOrder ==
    (Finished /\ stream = "closed" /\ AllQualifying)
        => Titles(yielded) = Ids(Len(buffer))

\* C2: an input valid through K complete qualifying records and then broken
\* makes parse_stream yield exactly K findings, each once and in order, and
\* then raise ParseError.
C2_YieldsExactlyKThenParseError ==
    (Finished /\ stream = "broken" /\ AllQualifying)
        => (pc = "raised" /\ Titles(yielded) = Ids(Len(buffer)))

\* C3: parse_with_recovery yields exactly the findings parse_stream has
\* produced, in the same order, and ends normally, also when parse_stream
\* raised.
C3_RecoveryForwardsAllAndNeverRaises ==
    /\ wpc \in {"iterating", "ended"}
    /\ Len(recovered) <= Len(yielded)
    /\ recovered = SubSeq(yielded, 1, Len(recovered))
    /\ wpc = "ended" => (Finished /\ recovered = yielded)

\* C3 witness: parse_stream raised after it had yielded two or more findings
\* and the wrapper has ended normally with all of them.
C3_Witness ==
    /\ wpc = "ended"
    /\ pc = "raised"
    /\ Len(recovered) >= 2
    /\ recovered = yielded

\* what the caller of parse_with_recovery gets besides the findings: how the
\* iteration ended
CallerStatus ==
    CASE wpc = "ended" -> "success"
      [] wpc = "raised" -> "failure"
      [] OTHER -> "running"

\* C4: the caller of parse_with_recovery receives a status with the findings:
\* a run in which parse_stream failed is told apart from a run that completed.
C4_FailureDistinguishable ==
    wpc # "iterating" => (CallerStatus = "success" <=> pc = "done")

\* what parse_stream holds on to, counted in records: the bytes accumulated
\* in buffer (one chunk carries one record), the findings of batch and the
\* record being collected in current_finding
Retained ==
    Len(buffer) + Len(batch) + (IF in_finding_object THEN 1 ELSE 0)

\* C12: at every point of the parse the state parse_stream retains is bounded
\* by one output batch plus the record in progress plus the chunk being read,
\* whatever the number of chunks and records of the input.
C12_RetainedStateBounded == Retained <= batch_size + 1 + 1

(***************************************************************************)
(* Claims about the registry and the factory (checked under SpecRegistry)  *)
(***************************************************************************)
IsGetParser == last.op = "get_parser"
IsGetCompatible == last.op = "get_compatible_parsers"

\* the parsers of a candidate list
CandidateParsers(cands) == {cands[i].parser : i \in 1..Len(cands)}

\* the registered parsers whose can_parse returns a confidence > 0 on inp
Scoring(ps, inp) == {q \in Range(ps) : ~inp[q].raises /\ inp[q].conf > 0}

\* C5: get_parser returns "no parser" only when the ranked candidate list is
\* empty; when general selection has a non-empty list in which every candidate
\* is below its own threshold, it returns the top-ranked (highest-confidence)
\* candidate and logs the low-confidence warning.
C5_NoParserOnlyWhenNoCandidate ==
    (IsGetParser /\ ~last.raised) =>
        /\ last.result = None => (last.general /\ last.candidates = <<>>)
        /\ last.result = None => Scoring(parsers, file) = {}
        /\ (/\ last.general
            /\ last.candidates # <<>>
            /\ \A i \in 1..Len(last.candidates) :
                   ~ClearsThreshold(last.candidates[i]))
           => /\ last.result = last.candidates[1].parser
              /\ \A j \in 1..Len(last.candidates) :
                     last.candidates[1].confidence >= last.candidates[j].confidence
              /\ last.log = "low confidence"

\* C5 witness: general selection over two or more candidates, all below their
\* thresholds, returned the first one.
C5_Witness ==
    /\ IsGetParser
    /\ last.general
    /\ Len(last.candidates) >= 2
    /\ \A i \in 1..Len(last.candidates) : ~ClearsThreshold(last.candidates[i])
    /\ last.result = last.candidates[1].parser
    /\ last.candidates[1].confidence > last.candidates[2].confidence

\* C6: in general selection the ranked list is walked in descending confidence
\* order and the first candidate whose confidence is at least its own
\* threshold is returned; every candidate ranked above the returned parser is
\* below its own threshold.
C6_FirstCandidateClearingOwnThreshold ==
    (IsGetParser /\ last.general) =>
        LET cands == last.candidates
        IN /\ \A i, j \in 1..Len(cands) :
                  i < j => cands[i].confidence >= cands[j].confidence
           /\ \A k \in 1..Len(cands) :
                  (/\ ClearsThreshold(cands[k])
                   /\ \A j \in 1..(k - 1) : ~ClearsThreshold(cands[j]))
                  => last.result = cands[k].parser
           /\ \A k \in 1..Len(cands) :
                  last.result = cands[k].parser
                  => \A j \in 1..(k - 1) : ~ClearsThreshold(cands[j])

\* C6 witness: the returned parser is not the top-ranked one: a candidate of
\* higher confidence was passed over because it is below its own threshold.
C6_Witness ==
    /\ IsGetParser
    /\ last.general
    /\ \E k \in 2..Len(last.candidates) :
           /\ last.result = last.candidates[k].parser
           /\ ClearsThreshold(last.candidates[k])
           /\ last.candidates[1].confidence > last.candidates[k].confidence

\* the preferred tool's parser of the last get_parser call, and its cases
PreferredParser == get_parser_for_tool(tool_index, last.preferred)
PreferredAccepted ==
    /\ PreferredParser # None
    /\ ~file[PreferredParser].raises
    /\ file[PreferredParser].conf >= ConfidenceThreshold(PreferredParser)
PreferredUnregisteredOrBelow ==
    \/ PreferredParser = None
    \/ /\ ~file[PreferredParser].raises
       /\ file[PreferredParser].conf < ConfidenceThreshold(PreferredParser)
WithoutPreference == get_parser(parsers, tool_index, file, NoTool)
SameAsWithoutPreference ==
    /\ last.result = WithoutPreference.result
    /\ last.raised = WithoutPreference.raised

\* C7 as stated: with a preferred tool, get_parser returns that tool's
\* registered parser if and only if that parser's confidence is at least its
\* threshold; when the tool is not registered or the confidence is below the
\* threshold the result is that of get_parser without a preferred tool.
C7_PreferredIffClearsThreshold ==
    (IsGetParser /\ last.preferred # NoTool) =>
        /\ (PreferredParser # None /\ last.result = PreferredParser)
               <=> PreferredAccepted
        /\ PreferredUnregisteredOrBelow => SameAsWithoutPreference

\* C7 amended: with a preferred tool, get_parser returns that tool's first
\* registered parser whenever that parser's confidence is at least its
\* threshold (the converse fails: general selection may return the same parser
\* below its threshold); when the tool is not registered or the confidence is
\* below the threshold the result is that of get_parser without a preferred
\* tool.
C7_PreferredIfClearsThreshold ==
    (IsGetParser /\ last.preferred # NoTool) =>
        /\ PreferredAccepted => (~last.raised /\ last.result = PreferredParser)
        /\ PreferredUnregisteredOrBelow => SameAsWithoutPreference

\* C7 witness: the preferred parser is accepted although general selection
\* would have returned another parser.
C7_Witness ==
    /\ IsGetParser
    /\ last.preferred # NoTool
    /\ PreferredAccepted
    /\ last.result = PreferredParser
    /\ WithoutPreference.result # PreferredParser

\* C8: get_compatible_parsers calls can_parse on every registered parser and
\* returns exactly the parsers whose confidence is > 0, each once with its
\* confidence, sorted by confidence descending, equal confidences in
\* registration order.
C8_CompatibleSortedStable ==
    IsGetCompatible =>
        LET res == last.result
        IN /\ Range(last.called) = Range(parsers)
           /\ CandidateParsers(res) = Scoring(parsers, file)
           /\ \A i, j \in 1..Len(res) :
                  i < j => res[i].parser # res[j].parser
           /\ \A i \in 1..Len(res) :
                  res[i].confidence = file[res[i].parser].conf
           /\ \A i, j \in 1..Len(res) :
                  i < j => res[i].confidence >= res[j].confidence
           /\ \A i, j \in 1..Len(res) :
                  (i < j /\ res[i].confidence = res[j].confidence)
                  => IndexOf(parsers, res[i].parser) < IndexOf(parsers, res[j].parser)

\* C8 witness: three registered parsers, one excluded, the two returned ones
\* tied on confidence.
C8_Witness ==
    /\ IsGetCompatible
    /\ Len(parsers) = 3
    /\ Len(last.result) = 2
    /\ last.result[1].confidence = last.result[2].confidence

\* C9: a can_parse exception of a registered parser never leaves parser
\* selection: get_compatible_parsers and get_parser (preferred-tool path
\* included) return normally, the failing parser is left out and the others
\* are still evaluated.
C9_CanParseFailureNeverSurfaces ==
    /\ IsGetCompatible =>
           /\ ~last.raised
           /\ CandidateParsers(last.result) = Scoring(parsers, file)
    /\ IsGetParser =>
           /\ ~last.raised
           /\ last.general =>
                  CandidateParsers(last.candidates) = Scoring(parsers, file)

\* C10: register of an already registered (tool_name, implementation) pair
\* raises and leaves _parsers, _tool_index and the candidate list of every
\* input as they were.
C10_DuplicateRegisterRejected ==
    [][(last'.op = "register" /\ last'.cls \in Range(parsers)) =>
           /\ last'.raised
           /\ parsers' = parsers
           /\ tool_index' = tool_index
           /\ \A inp \in Inputs :
                  get_compatible_parsers(parsers', inp)
                      = get_compatible_parsers(parsers, inp)]_vars

\* C10 witness: a second register of a registered class has just raised, with
\* two parsers in the registry.
C10_Witness ==
    /\ last.op = "register"
    /\ last.raised
    /\ Len(parsers) >= 2
    /\ last.cls \in Range(parsers)

(***************************************************************************)
(* Claims about the metrics table (checked under SpecMetrics)              *)
(***************************************************************************)
RECURSIVE SumOver(_, _)
SumOver(f, S) ==
    IF S = {} THEN 0
    ELSE LET t == CHOOSE x \in S : TRUE IN f[t] + SumOver(f, S \ {t})

AllReturned == \A t \in Callers : tpc[t] = "returned"

\* C11: after N concurrent track_metrics track_calls for the same tool, whatever
\* their interleaving, no update is lost: parse_count = N, total_time is the
\* sum of the N elapsed times and error_count is the number of unsuccessful
\* track_calls.
C11_NoMetricsUpdateLost ==
    AllReturned =>
        /\ metrics.parse_count = NumCalls
        /\ metrics.total_time =
               SumOver([t \in Callers |-> track_calls[t].elapsed_time], Callers)
        /\ metrics.error_count =
               Cardinality({t \in Callers : ~track_calls[t].success})

(***************************************************************************)
(* Claims about can_parse (checked under SpecCanParse)                     *)
(***************************************************************************)
\* C13: for every registered parser and any preview and filename, can_parse
\* returns a value within [0,1].
C13_CanParseWithinUnitInterval ==
    confidence.returned => (0 <= confidence.value /\ confidence.value <= 10)

\* C13 witness: a call whose increments add up to more than 1.0 has
\* returned (Bandit: name, extension and every content indicator).
C13_Witness ==
    /\ confidence.returned
    /\ parser_class = "BanditParser"
    /\ filename = [word |-> "bandit", ext |-> ".json"]
    /\ file_preview = MarkersOf("BanditParser")

(***************************************************************************)
(* Claims about the format detector (checked under SpecDetect)             *)
(***************************************************************************)
PdfSignature == <<"%", "P", "D", "F">>

\* C14: a byte string beginning with %PDF is never classified as a
\* format_type other than "pdf", whatever follows the signature (many commas
\* included) and whatever the filename and its extension.
C14_PdfSignatureMeansPdf ==
    (format_info.returned /\ StartsWith(content.bytes, PdfSignature))
        => format_info.format_type = "pdf"

\* C14 witness: a preview that begins with %PDF, holds more than 5 commas
\* and is named *.csv has been classified.
C14_Witness ==
    /\ format_info.returned
    /\ StartsWith(content.bytes, PdfSignature)
    /\ ManyCommas(content.bytes)
    /\ detect_name = [given |-> TRUE, ext |-> "csv"]

(***************************************************************************)
(* Claims about SeverityMapper (checked under SpecSeverity)                *)
(***************************************************************************)
TextGiven == LowerText(severity_text)
HasCvssScore == CvssMatches(TextGiven) # {}
HasPriorityLevel == PriorityMatches(TextGiven) # {}
FirstCvssScore == ScoreOf(Leftmost(CvssMatches(TextGiven))[2])
FirstPriority == Leftmost(PriorityMatches(TextGiven))[2]

\* the levels whose keyword table has an entry that occurs in the text
LevelsNamed ==
    {SEVERITY_KEYWORDS[i][1] :
        i \in {j \in 1..Len(SEVERITY_KEYWORDS) :
                  SEVERITY_KEYWORDS[j][2] \cap KeywordsInText(TextGiven) # {}}}

\* C15: map_severity resolves a text with fixed precedence: a CVSS score
\* (>= 9.0 CRITICAL, >= 7.0 HIGH, >= 4.0 MEDIUM, else LOW) wins over a
\* priority level (P0 CRITICAL, P1 HIGH, P2 MEDIUM, P3 and below LOW), which
\* wins over the keyword table, which falls back to MEDIUM; "CVSS: 9.5" is
\* CRITICAL, "P1" HIGH, "moderate risk" MEDIUM and "" MEDIUM.
C15_SeverityPrecedence ==
    mapped.returned =>
        /\ HasCvssScore =>
               mapped.severity =
                   (CASE FirstCvssScore >= 90 -> "CRITICAL"
                      [] FirstCvssScore >= 70 /\ FirstCvssScore < 90 -> "HIGH"
                      [] FirstCvssScore >= 40 /\ FirstCvssScore < 70 -> "MEDIUM"
                      [] OTHER -> "LOW")
        /\ (~HasCvssScore /\ HasPriorityLevel) =>
               mapped.severity =
                   (CASE FirstPriority = 0 -> "CRITICAL"
                      [] FirstPriority = 1 -> "HIGH"
                      [] FirstPriority = 2 -> "MEDIUM"
                      [] OTHER -> "LOW")
        /\ (~HasCvssScore /\ ~HasPriorityLevel /\ LevelsNamed # {}) =>
               mapped.severity \in LevelsNamed
        /\ (~HasCvssScore /\ ~HasPriorityLevel /\ LevelsNamed = {}) =>
               mapped.severity = "MEDIUM"
        /\ severity_text = <<"CVSS", ":", "9.5">> => mapped.severity = "CRITICAL"
        /\ severity_text = <<"P1">> => mapped.severity = "HIGH"
        /\ severity_text = <<"moderate", "risk">> => mapped.severity = "MEDIUM"
        /\ severity_text = <<>> => mapped.severity = "MEDIUM"

\* C15 witness: a text that carries the CVSS score 7.0 and the priority level
\* p0, which is also a keyword of CRITICAL, has been mapped.
C15_Witness ==
    /\ mapped.returned
    /\ severity_text = <<"cvss", "7.0", "p0">>

(***************************************************************************)
(* Claims about ConfidenceScorer (checked under SpecScore)                 *)
(***************************************************************************)
\* C16: populating a further field of a finding record never decreases the
\* score calculate_confidence gives it; this includes populating the
\* description, which also enlarges the denominator by the weight of the
\* length bonus.
C16_ScoreMonotonic == FractionLeq(score_before, confidence_score)

\* C16 witness: a short description has just been populated on a record that
\* had every other field, so that the denominator grew.
C16_Witness ==
    /\ scored.description = "short"
    /\ \A f \in ScoredFields : Populated(scored, f)
    /\ confidence_score.den > score_before.den
    /\ confidence_score.num > score_before.num

(***************************************************************************)
(* Claims about a Bandit report taken end to end                           *)
(***************************************************************************)
\* the detector has answered and get_parser has returned
BanditSelected == bandit_pc \in {"loop", "resume", "except", "raised", "done"}

\* the detector reports json with confidence 0.9 or more and get_parser
\* returns the Bandit parser
BanditRecognised ==
    /\ bandit_format.format_type = "json"
    /\ bandit_format.confidence >= 90
    /\ bandit_selected.result = "BanditParser"

\* parse_stream yielded one finding per record, in array order, each from
\* "bandit" and with the severity its record names
BanditFindingsMatch ==
    /\ Len(bandit_yielded) = Len(bandit_report)
    /\ \A i \in 1..Len(bandit_report) :
           /\ bandit_yielded[i].tool_source = "bandit"
           /\ bandit_yielded[i].severity = bandit_report[i].issue_severity

\* some record carries the keys Bandit writes beside issue_severity
SomeFullRecord ==
    \E i \in 1..Len(bandit_report) : bandit_report[i].fields = "full"

\* every record names its severity with a string
AllSeveritiesNamed ==
    \A i \in 1..Len(bandit_report) : bandit_report[i].issue_severity # "null"

C18_ProgressCountsFindings ==
    /\ \A i \in 1..Len(v2_progress) :
           v2_progress[i].value = v2_progress[i].yielded
    /\ (v2_pc = "done" /\ v2_callback = "ok") =>
           /\ v2_progress # <<>>
           /\ v2_progress[Len(v2_progress)].value = Len(v2_yielded)

(***************************************************************************)
(* Claims about parse_file                                                 *)
(***************************************************************************)
\* no registered parser scores above zero for the file
NoParserScores ==
    \A c \in ShippedParsers : pf_file[c].raises \/ pf_file[c].conf = 0

\* C19: when no registered parser scores above zero, get_parser returns no
\* parser and parse_file does not end with the generic parse failure, the
\* base ParseError.
C19_NoParserFoundIsDistinct ==
    (NoParserScores /\ pf_pc = "ended") =>
        /\ pf_parser = None
        /\ pf_outcome # RaisedException(BaseParseError)

(***************************************************************************)
(* Claims about the findings a parser yields                               *)
(***************************************************************************)
\* SeverityLevel
SeverityLevels == {"CRITICAL", "HIGH", "MEDIUM", "LOW"}

\* C20: every finding yielded is well formed whatever its record holds: its
\* severity is one of CRITICAL/HIGH/MEDIUM/LOW and its title and its
\* description are non-empty strings, also for a record without a
\* description field.
C20_FindingsWellFormed ==
    \A i \in 1..Len(yielded) :
        /\ yielded[i].severity \in SeverityLevels
        /\ yielded[i].title.t = "string" /\ yielded[i].title.v # ""
        /\ yielded[i].description.t = "string"
        /\ yielded[i].description.v # ""

(***************************************************************************)
(* Claims about the extension fallback of detect_format                    *)
(***************************************************************************)
\* content inspection was inconclusive and the extension is in the fallback
\* map
ExtensionDecides ==
    /\ format_info.returned
    /\ detect_by_magic(content.bytes) = None
    /\ detect_name.given
    /\ detect_name.ext \in DOMAIN ExtMap

\* C21: whenever detect_format falls back to the filename extension because
\* content inspection was inconclusive, the FormatInfo has confidence 0.6
\* and its warnings flag the detection as extension-only, for every
\* extension of the fallback map, .json and .xml included.
C21_ExtensionFallbackFlagged ==
    ExtensionDecides =>
        /\ format_info.confidence = 60
        /\ ExtensionOnly \in Range(format_info.warnings)

(***************************************************************************)
(* Claims about JSON previews and the comma heuristic                      *)
(***************************************************************************)
\* C30: for a preview that is a well-formed JSON object or array in a file
\* named *.json, detect_format returns format_type json, never csv, whatever
\* whitespace follows the opening brace or bracket and however many commas
\* the first 1KB holds.
C30_JsonNeverCsv ==
    (/\ format_info.returned
     /\ content.bytes \in JsonTexts
     /\ detect_name.given
     /\ detect_name.ext = "json") => format_info.format_type = "json"

(***************************************************************************)
(* Claims about ConnectionManager                                          *)
(***************************************************************************)
\* C22: after disconnect(client_id) of a connected client that has joined
\* one or more rooms, the call has completed without error and the client
\* is absent from active_connections and from every room.
C22_DisconnectRemovesEverywhere ==
    (ws_last.op = "disconnect" /\ ws_last.had_rooms) =>
        /\ ~ws_last.raised
        /\ ws_last.client \notin active_connections
        /\ \A r \in RoomNames : ws_last.client \notin rooms[r]

(***************************************************************************)
(* Claims about the batches of ProwlerV3Parser.parse_stream                *)
(***************************************************************************)
\* C23: parse_stream never yields the finding of one input record more than
\* once, whatever the input and whatever the progress callback does: what a
\* batch flush or the emit-remaining loop has yielded is not yielded again
\* by the flush of the except clause.
C23_NoFindingYieldedTwice ==
    \A i, j \in 1..Len(yielded) :
        i # j => yielded[i].title # yielded[j].title

\* the flush progress reports of a run whose callback works: the k-th one
\* carries k * batch_size
FlushReports(k) == [i \in 1..k |-> i * batch_size]

\* C24: each time the batch reaches batch_size findings, parse_stream yields
\* them in arrival order and then calls the progress callback with the
\* cumulative count, before it handles any further record; so the findings
\* buffered and not yet yielded never exceed batch_size.
C24_FlushAtBatchSize ==
    /\ Len(batch) <= batch_size
    /\ pc = "flush" =>
           /\ Len(batch) = batch_size
           /\ findings_count = Len(yielded) - (yidx - 1) + batch_size
           /\ SubSeq(yielded, Len(yielded) - (yidx - 1) + 1, Len(yielded))
                  = SubSeq(batch, 1, yidx - 1)
    /\ pc = "parse" =>
           /\ batch = <<>>
           /\ findings_count = Len(yielded)
           /\ progress_callback = "ok" =>
                  progress = FlushReports(Len(yielded) \div batch_size)

\* C24 witness: two flushes done, each followed by its progress report, and
\* the parser about to go on with the next record
C24_Witness ==
    /\ pc = "parse"
    /\ progress_callback = "ok"
    /\ Len(yielded) = 2 * batch_size
    /\ progress = <<batch_size, 2 * batch_size>>

(***************************************************************************)
(* Claims about the records ProwlerV3Parser.parse_stream accumulates       *)
(***************************************************************************)
RECURSIVE QualifyingIds(_)
\* the ids of the first n records of the file that qualify by their own
\* top-level fields, in file order
QualifyingIds(n) ==
    IF n = 0 THEN <<>>
    ELSE QualifyingIds(n - 1)
             \o (IF Qualifying(Record(buffer[n], n)) THEN <<ToString(n)>>
                 ELSE <<>>)

\* C25: a record is discarded at its close exactly when its own top-level
\* status is PASS and otherwise becomes a finding built from its own
\* top-level fields; scalars nested in its sub-objects (a nested key named
\* status, say) neither discard a qualifying record nor overwrite its
\* top-level fields.  So a parse that completes has yielded the findings of
\* exactly the records that qualify by their own fields.
C25_OnlyOwnFieldsDecide ==
    (pc = "done" /\ progress_callback = "none") =>
        Titles(yielded) = QualifyingIds(Len(buffer))

\* the members of the compliance sub-object of the record
ComplianceMembers == acc_record.v[3][2].v

\* the record has been closed: its end_map is behind
RecordClosed ==
    /\ acc_pos > 1
    /\ \E p \in 1..(acc_pos - 1) :
           /\ RecordEvents(acc_record)[p].prefix = ItemPrefix
           /\ RecordEvents(acc_record)[p].event = "end_map"

\* C26: entering the compliance sub-object switches the accumulation mode,
\* so that at record close the accumulated map holds under "compliance" a
\* nested map from each child array's name to the ordered list of that
\* array's scalar values, and the mode is flat again.
C26_ComplianceGrouped ==
    RecordClosed =>
        LET compliance == Get(acc_locals.current_finding, "compliance", Null)
        IN /\ ~acc_locals.in_compliance
           /\ DOMAIN compliance =
                  {ComplianceMembers[i][1] : i \in 1..Len(ComplianceMembers)}
           /\ \A i \in 1..Len(ComplianceMembers) :
                  compliance[ComplianceMembers[i][1]]
                      = ComplianceMembers[i][2].v

\* what the track_metrics call of this parse_file did to the counters of
\* the selected parser's tool
TrackedParseCount == IF pf_tracked = "none" THEN 0 ELSE 1
TrackedErrorCount == IF pf_tracked = "failure" THEN 1 ELSE 0

\* the parse did not complete successfully: parse_stream raised, or
\* parse_file itself ended with an exception
ParseFailed == pf_stream_fails \/ pf_outcome.kind = "raised"

\* C27: a parse_file call that selected a parser records exactly one
\* invocation for that parser's tool and counts an error if and only if
\* the parse did not complete successfully, also when parse_stream failed
\* partway and parse_with_recovery handed back partial results; and
\* error_count <= parse_count.
C27_ErrorCountedIffParseFailed ==
    /\ TrackedErrorCount <= TrackedParseCount
    /\ (pf_pc = "ended" /\ pf_parser # None) =>
           /\ TrackedParseCount = 1
           /\ TrackedErrorCount = 1 <=> ParseFailed

(***************************************************************************)
(* Claims about the registry and its per-tool index                        *)
(***************************************************************************)
\* the tool names the model knows, registered or not
ToolNames == {ToolName(c) : c \in ParserClasses} \cup PreferredTools

\* C28: after any sequence of register and unregister calls no two entries
\* share (tool_name, implementation); for every tool name the index lists
\* exactly the registered parsers of that tool in registration order; so
\* get_supported_tools names exactly the tools with a registered parser, and
\* get_parser_for_tool never returns an unregistered parser.
C28_RegistryAndIndexAgree ==
    /\ \A i, j \in 1..Len(parsers) :
           (/\ ToolName(parsers[i]) = ToolName(parsers[j])
            /\ ClassName(parsers[i]) = ClassName(parsers[j])) => i = j
    /\ \A t \in DOMAIN tool_index :
           tool_index[t] =
               SelectSeqBy(parsers, {c \in Range(parsers) : ToolName(c) = t})
    /\ get_supported_tools(tool_index) = {ToolName(c) : c \in Range(parsers)}
    /\ \A t \in ToolNames \ {NoTool} :
           get_parser_for_tool(tool_index, t) \in Range(parsers) \cup {None}

\* C28 witness: an unregister has just removed one of three registered
\* parsers, and both tools still have a parser
C28_Witness ==
    /\ last.op = "unregister"
    /\ Len(parsers) = 2
    /\ get_supported_tools(tool_index) = {"prowler", "custom"}

(***************************************************************************)
(* Claims about table extraction                                           *)
(***************************************************************************)
\* no header of the table resolves to title or description
NoKeyHeader ==
    LET mapping == map_table_headers(table[1])
    IN \A h \in DOMAIN mapping : mapping[h] \notin {"title", "description"}

\* C29: when no header of a table resolves to title or description, the
\* rows are read as two-column label/value pairs instead of going through
\* the header mapping, also when headers resolve to other fields such as
\* severity or resource.
C29_FallbackWithoutKeyHeader ==
    (table_result.route \notin {"none", "idle"} /\ NoKeyHeader)
        => table_result.route = "key_value"

====
